---------------------------- MODULE Spec2Model ----------------------------
(***************************************************************************)
(* srtla_rec (OpenIRL/srtla): the receiver side of SRTLA.  The model is    *)
(* the event loop of src/src/main.cpp: the registry of connection groups,  *)
(* the REG1/REG2 registration handshake, the uplink data path with SRTLA   *)
(* ACK batching, the downstream path with the connection selector, and the *)
(* janitor (cleanup and proactive ping).                                   *)
(*                                                                         *)
(* A datagram is a record [len, b, id, acks]:                              *)
(*   len   its length in bytes,                                            *)
(*   b     its first four bytes,                                           *)
(*   id    bytes [2,18) and [18,34) of a registration packet, each half an *)
(*         opaque 16-byte block (<<0, 0>> in any other packet),            *)
(*   acks  the ten 4-byte words of an SRTLA ACK (<<>> in any other packet) *)
(* Addresses (struct sockaddr) are 1..NumAddrs; 0 is the zeroed sockaddr.  *)
(***************************************************************************)
EXTENDS Integers, Sequences, FiniteSets, TLC

(***************************************************************************)
(* Program constants (src/src/main.h).  MAX_GROUPS (200 in the program)    *)
(* and MAX_CONNS_PER_GROUP (16) are scaled down so that a full registry    *)
(* and a full group are reachable; they are bounds of the model.           *)
(***************************************************************************)
MAX_CONNS_PER_GROUP == 2
MAX_GROUPS == 2
CLEANUP_PERIOD == 3
GROUP_TIMEOUT == 4
CONN_TIMEOUT == 4
RECV_ACK_INT == 10

\* common.h (not part of src/): wire constants of SRTLA and SRT
SRTLA_TYPE_KEEPALIVE == 36864
SRTLA_TYPE_ACK == 37120
SRTLA_TYPE_REG1 == 37376
SRTLA_TYPE_REG2 == 37377
SRTLA_TYPE_REG3 == 37378
SRTLA_TYPE_REG_ERR == 37392
SRTLA_TYPE_REG_NGP == 37393
SRT_TYPE_ACK == 32770
SRTLA_TYPE_REG1_LEN == 34
SRTLA_TYPE_REG2_LEN == 34
SRT_MIN_LEN == 16

(***************************************************************************)
(* Bounds of the model.                                                    *)
(***************************************************************************)
NumAddrs == 3       \* client addresses 1..NumAddrs
NumNonces == 1      \* client halves of a group id
NumRandom == 2      \* values /dev/urandom yields for the server half
MaxUid == 3         \* groups allocated in one run
StartTime == 58     \* the clock when the process starts
MaxTime == 7        \* seconds the clock advances in one run
MaxBatch == 1       \* events of one readiness batch (MAX_EPOLL_EVENTS is 10)
MaxData == 1        \* SRT data packets registered on a connection (Spec)
MaxSel == 5         \* calls of select_connection_based_on_load in one run
MaxBytes == 96      \* bytes_sent and bytes_this_period of a connection

Addrs == 1..NumAddrs
NoAddr == 0
Min(a, b) == IF a < b THEN a ELSE b
Max(a, b) == IF a < b THEN b ELSE a

(***************************************************************************)
(* Packet codec (common.c, not part of src/; modelled from section 4.1 of  *)
(* the specification).                                                     *)
(***************************************************************************)
NoId == <<0, 0>>
be16(b) == b[1] * 256 + b[2]
be32(b) == ((b[1] * 256 + b[2]) * 256 + b[3]) * 256 + b[4]
\* the memory image of htobe16(x) / htobe32(x): the big-endian bytes of x
htobe16(x) == <<(x \div 256) % 256, x % 256>>
htobe32(x) == <<(x \div 16777216) % 256, (x \div 65536) % 256, (x \div 256) % 256, x % 256>>
\* htobe32(x << 16) for a 16-bit x: x in the two high bytes
htobe32_shl16(x) == <<(x \div 256) % 256, x % 256, 0, 0>>

get_srtla_type(pkt) == IF pkt.len < 2 THEN 0 ELSE be16(pkt.b)
is_srtla_reg1(pkt) == pkt.len = SRTLA_TYPE_REG1_LEN /\ get_srtla_type(pkt) = SRTLA_TYPE_REG1
is_srtla_reg2(pkt) == pkt.len = SRTLA_TYPE_REG2_LEN /\ get_srtla_type(pkt) = SRTLA_TYPE_REG2
is_srtla_keepalive(pkt) == pkt.len = 2 /\ get_srtla_type(pkt) = SRTLA_TYPE_KEEPALIVE
is_srt_control(pkt) == pkt.len >= SRT_MIN_LEN /\ pkt.b[1] >= 128
is_srt_ack(pkt) == is_srt_control(pkt) /\ be16(pkt.b) = SRT_TYPE_ACK
is_srt_data(pkt) == pkt.len >= SRT_MIN_LEN /\ pkt.b[1] < 128
get_srt_sn(pkt) == IF is_srt_data(pkt) THEN be32(pkt.b) ELSE -1

\* a datagram: its first four bytes b, its length, the 32-byte id of a
\* registration packet and the entries of an SRTLA ACK.  The fields of every
\* record are written in the order TLC keeps them in.
\* Header: the 2-byte control packets the server builds
Header(type) == [b |-> htobe16(type) \o <<0, 0>>, len |-> 2, id |-> NoId, acks |-> <<>>]

\* one sendto()/send(): sock 0 is srtla_sock, any other the group's srt_sock
Sent(sock, to, data, ok) == [sock |-> sock, to |-> to, data |-> data, ok |-> ok]

(***************************************************************************)
(* Records.                                                                *)
(***************************************************************************)
\* srtla_conn::srtla_conn; the members without an initializer in the
\* constructor are zero.  h_rcvd, h_acks and h_pending are history (not
\* program state): the SRT data packets registered on the connection, the
\* SRTLA ACKs emitted for it, and the sequence numbers registered since the
\* last SRTLA ACK.
srtla_conn(addr, ts) ==
  [addr |-> addr, last_rcvd |-> ts, recv_idx |-> 0,
   recv_log |-> [i \in 1..RECV_ACK_INT |-> htobe32(0)],
   bytes_sent |-> 0, bytes_this_period |-> 0, max_bytes_per_period |-> 0,
   last_capacity_update |-> ts, health_status |-> 0,
   successive_failures |-> 0, recovery_attempts |-> 0,
   h_rcvd |-> 0, h_acks |-> 0, h_pending |-> <<>>]

\* srtla_conn_group::srtla_conn_group: the first half of the id is copied
\* from the client, the second half is read from /dev/urandom.  uid stands
\* for the object's identity (its address on the heap).
srtla_conn_group(client_id, ts, server_id, uid) ==
  [id |-> <<client_id, server_id>>, uid |-> uid, conns |-> <<>>, created_at |-> ts,
   srt_sock |-> -1, last_addr |-> NoAddr]

(***************************************************************************)
(* Registry lookups.  A group is named by its index in conn_groups; 0 is   *)
(* the null pointer.                                                       *)
(***************************************************************************)
const_time_cmp(a, b) == IF a = b THEN 0 ELSE -1

FirstIdx(S) == IF S = {} THEN 0 ELSE CHOOSE i \in S : \A j \in S : i <= j

group_find_by_id(groups, id) ==
  FirstIdx({i \in DOMAIN groups : const_time_cmp(groups[i].id, id) = 0})

ConnIdx(group, addr) ==
  FirstIdx({j \in DOMAIN group.conns : const_time_cmp(group.conns[j].addr, addr) = 0})

\* the lookup without lines 562-566
group_find_by_conn_only(groups, addr) ==
  LET gi == FirstIdx({i \in DOMAIN groups : ConnIdx(groups[i], addr) # 0})
  IN  IF gi = 0 THEN [g |-> 0, c |-> 0]
      ELSE [g |-> gi, c |-> ConnIdx(groups[gi], addr)]

group_find_by_addr(groups, addr) ==
  LET gi == FirstIdx({i \in DOMAIN groups :
                        \/ ConnIdx(groups[i], addr) # 0
                        \/ const_time_cmp(groups[i].last_addr, addr) = 0})
  IN  IF gi = 0 THEN [g |-> 0, c |-> 0]
      ELSE [g |-> gi, c |-> ConnIdx(groups[gi], addr)]


(***************************************************************************)
(* The part of the process a handler works on: w.groups is conn_groups,    *)
(* w.files the socket info files (local port -> lines), w.out the          *)
(* datagrams the handler has sent so far, w.next_uid the next object       *)
(* identity, w.last_decay is g_last_decay_time and w.rr the static         *)
(* round_robin_counter of select_connection_based_on_load.  A downstream   *)
(* socket's local port is named by its descriptor.                         *)
(***************************************************************************)
FirstFd == 5

\* print_addr(): the IP of an address, without its port; addresses 1 and 2
\* are two ports of one host
print_addr(addr) == (addr + 1) \div 2

get_sock_local_port(fd) == fd

get_client_addresses(group) == [j \in DOMAIN group.conns |-> group.conns[j].addr]

WriteFile(files, port, lines) ==
  [p \in (DOMAIN files) \cup {port} |-> IF p = port THEN lines ELSE files[p]]

RemoveFile(files, port) == [p \in (DOMAIN files) \ {port} |-> files[p]]

write_socket_info_file(files, group) ==
  IF group.srt_sock = -1 THEN files
  ELSE LET client_addresses == get_client_addresses(group)
       IN  WriteFile(files, get_sock_local_port(group.srt_sock),
                     [j \in DOMAIN client_addresses |-> print_addr(client_addresses[j])])

remove_socket_info_file(files, group) ==
  IF group.srt_sock = -1 THEN files
  ELSE RemoveFile(files, get_sock_local_port(group.srt_sock))

\* the mutant closes the socket and leaves the file
leave_file(files, group) == files

\* srtla_conn_group::~srtla_conn_group: the effect on the files (the socket
\* is closed with the record: the open sockets are those of the groups)
DestroyGroup(files, group) ==
  IF group.srt_sock > 0 THEN remove_socket_info_file(files, group) ELSE files

RemoveAt(s, i) == SubSeq(s, 1, i - 1) \o SubSeq(s, i + 1, Len(s))

\* the mutant empties the registry
remove_all_groups(w, gi) == [w EXCEPT !.groups = <<>>, !.files = <<>>]

\* remove_group; the last reference goes when the handler returns, which is
\* within the same step
remove_group(w, gi) ==
  IF gi = 0 THEN w
  ELSE [w EXCEPT !.groups = RemoveAt(w.groups, gi),
                 !.files = DestroyGroup(w.files, w.groups[gi])]

SendTo(w, to, data, ok) == [w EXCEPT !.out = Append(@, Sent(0, to, data, ok))]

srtla_send_reg_err(w, addr, ok) == SendTo(w, addr, Header(SRTLA_TYPE_REG_ERR), ok)

(***************************************************************************)
(* REG1: register_group.  ok says whether the one sendto() of the handler  *)
(* sends the whole datagram.                                               *)
(***************************************************************************)
Reg2Packet(id) ==
  [b |-> htobe16(SRTLA_TYPE_REG2) \o <<0, 0>>, len |-> SRTLA_TYPE_REG2_LEN,
   id |-> id, acks |-> <<>>]

registry_unbounded(w) == FALSE
\* line 644
registry_full(w) == Len(w.groups) >= MAX_GROUPS

client_id_tail(in_buf) == in_buf.id[2]
\* line 661: char *client_id = in_buf + 2
client_id_of(in_buf) == in_buf.id[1]

register_group(w, addr, in_buf, ts, server_id, ok) ==
  IF registry_full(w) THEN srtla_send_reg_err(w, addr, ok)
  ELSE IF group_find_by_addr(w.groups, addr).g # 0 THEN srtla_send_reg_err(w, addr, ok)
  ELSE LET client_id == client_id_of(in_buf)
           group == [srtla_conn_group(client_id, ts, server_id, w.next_uid)
                       EXCEPT !.last_addr = addr]
           w1 == [SendTo(w, addr, Reg2Packet(group.id), ok)
                    EXCEPT !.next_uid = w.next_uid + 1]
       IN  IF ~ok THEN w1
           ELSE [w1 EXCEPT !.groups = Append(w.groups, group)]

(***************************************************************************)
(* REG2: conn_reg.                                                         *)
(***************************************************************************)
any_group_allowed(tmp, group) == FALSE
\* line 712: tmp && tmp != group
group_mismatch(tmp, group) == tmp # 0 /\ tmp # group

group_unbounded(group) == FALSE
\* line 722
group_full(group) == Len(group.conns) >= MAX_CONNS_PER_GROUP

never_registered(conn) == FALSE
\* lines 720-730: the connection found by address is reused
is_registered(conn) == conn # 0

\* lines 718-730: a connection that is already registered is taken as it is;
\* the mutant stamps it with the time of the registration
reuse_refreshed(conns, c, ts) == [conns EXCEPT ![c].last_rcvd = ts]

reuse_conn(conns, c, ts) == conns

conn_reg(w, addr, in_buf, ts, ok) ==
  LET id == in_buf.id
      gi == group_find_by_id(w.groups, id)
      f == group_find_by_addr(w.groups, addr)
  IN  IF gi = 0 THEN SendTo(w, addr, Header(SRTLA_TYPE_REG_NGP), ok)
      ELSE IF group_mismatch(f.g, gi) THEN srtla_send_reg_err(w, addr, ok)
      ELSE IF ~is_registered(f.c) /\ group_full(w.groups[gi])
           THEN srtla_send_reg_err(w, addr, ok)
      ELSE LET already_registered == is_registered(f.c)
               w1 == SendTo(w, addr, Header(SRTLA_TYPE_REG3), ok)
               conns == IF already_registered
                        THEN reuse_conn(w.groups[gi].conns, f.c, ts)
                        ELSE Append(w.groups[gi].conns, srtla_conn(addr, ts))
               group == [w.groups[gi] EXCEPT !.conns = conns]
           IN  IF ~ok THEN w1
               ELSE [w1 EXCEPT !.groups[gi] = [group EXCEPT !.last_addr = addr],
                               !.files = write_socket_info_file(w.files, group)]

(***************************************************************************)
(* register_packet: the SRTLA ACK batching of one connection.              *)
(***************************************************************************)
\* lines 805-807; the mutant lists the log from its second entry on
AckPacketRotated(recv_log) ==
  [b |-> htobe32_shl16(SRTLA_TYPE_ACK), len |-> 4 + 4 * RECV_ACK_INT,
   id |-> NoId, acks |-> Tail(recv_log) \o <<Head(recv_log)>>]

AckPacket(recv_log) ==
  [b |-> htobe32_shl16(SRTLA_TYPE_ACK), len |-> 4 + 4 * RECV_ACK_INT,
   id |-> NoId, acks |-> recv_log]

\* line 804
ack_never_due(conn) == FALSE

ack_due(conn) == conn.recv_idx = RECV_ACK_INT

\* h_rcvd, h_acks and h_pending record what the connection has registered,
\* how many SRTLA ACKs it was sent, and what it registered since the last one
register_packet(w, gi, ci, sn, ok) ==
  LET conn == w.groups[gi].conns[ci]
      c1 == [conn EXCEPT !.recv_log[conn.recv_idx + 1] = htobe32(sn),
                         !.recv_idx = conn.recv_idx + 1,
                         !.h_rcvd = conn.h_rcvd + 1,
                         !.h_pending = Append(conn.h_pending, sn)]
  IN  IF ack_due(c1)
      THEN [SendTo(w, c1.addr, AckPacket(c1.recv_log), ok)
              EXCEPT !.groups[gi].conns[ci] =
                       [c1 EXCEPT !.recv_idx = 0, !.h_acks = c1.h_acks + 1,
                                  !.h_pending = <<>>]]
      ELSE [w EXCEPT !.groups[gi].conns[ci] = c1]

\* lines 852-858: the keepalive goes back as it came
no_echo(w, addr, buf, ok) == w

echo_keepalive(w, addr, buf, ok) == SendTo(w, addr, buf, ok)

(***************************************************************************)
(* handle_srtla_data: one datagram read from srtla_sock.  srt_io names the *)
(* call on the downstream socket that fails, if the handler gets to it.    *)
(***************************************************************************)
SrtIo == {"ok", "socket", "connect", "epoll_add", "send"}

\* socket(): the lowest descriptor not in use
NewFd(groups) ==
  CHOOSE fd \in FirstFd..(FirstFd + Len(groups)) :
    /\ \A i \in DOMAIN groups : groups[i].srt_sock # fd
    /\ \A k \in FirstFd..(fd - 1) : \E i \in DOMAIN groups : groups[i].srt_sock = k

\* the mutant reads the datagram and forwards nothing
forward_nothing(w, gi, buf, srt_io) == w

\* lines 872-907: open the downstream socket if there is none, then forward
ForwardToSrt(w, gi, buf, srt_io) ==
  LET g == w.groups[gi]
      sock == NewFd(w.groups)
      opened == g.srt_sock < 0
      w1 == IF opened /\ srt_io # "socket"
            THEN [w EXCEPT !.groups[gi].srt_sock = sock] ELSE w
      w2 == IF opened /\ srt_io \notin {"socket", "connect", "epoll_add"}
            THEN [w1 EXCEPT !.files = write_socket_info_file(w1.files, w1.groups[gi])]
            ELSE w1
  IN  IF opened /\ srt_io \in {"socket", "connect", "epoll_add"}
      THEN remove_group(w1, gi)
      ELSE LET w3 == [w2 EXCEPT !.out = Append(@, Sent(w2.groups[gi].srt_sock, NoAddr,
                                                       buf, srt_io # "send"))]
           IN  IF srt_io = "send" THEN remove_group(w3, gi) ELSE w3

\* line 864: g->last_addr = srtla_addr; the mutant leaves it as it is
keep_last_addr(w, gi, addr) == w

set_last_addr(w, gi, addr) == [w EXCEPT !.groups[gi].last_addr = addr]

\* line 849: c->last_rcvd = ts; the mutant leaves it as it is
keep_last_rcvd(w, gi, ci, ts) == w

set_last_rcvd(w, gi, ci, ts) == [w EXCEPT !.groups[gi].conns[ci].last_rcvd = ts]

\* lines 845-846: the packet of a peer that is no member of a group is
\* discarded; the mutant sends it back
echo_to_stranger(w, srtla_addr, buf, ok) == SendTo(w, srtla_addr, buf, ok)

discard_packet(w, srtla_addr, buf, ok) == w

handle_srtla_data(w, ts, srtla_addr, buf, server_id, ok, srt_io) ==
  IF is_srtla_reg1(buf) THEN register_group(w, srtla_addr, buf, ts, server_id, ok)
  ELSE IF is_srtla_reg2(buf) THEN conn_reg(w, srtla_addr, buf, ts, ok)
  ELSE LET f == group_find_by_addr(w.groups, srtla_addr)
       IN  IF f.g = 0 \/ f.c = 0 THEN discard_packet(w, srtla_addr, buf, ok)
           ELSE LET w1 == set_last_rcvd(w, f.g, f.c, ts)
                IN  IF is_srtla_keepalive(buf) THEN echo_keepalive(w1, srtla_addr, buf, ok)
                    ELSE IF buf.len < SRT_MIN_LEN THEN w1
                    ELSE LET w2 == set_last_addr(w1, f.g, srtla_addr)
                             sn == get_srt_sn(buf)
                             w3 == IF sn >= 0 THEN register_packet(w2, f.g, f.c, sn, ok)
                                   ELSE w2
                         IN  ForwardToSrt(w3, f.g, buf, srt_io)


(***************************************************************************)
(* The selector: select_best_conn and its helpers.  A connection of the    *)
(* group is named by its index in group.conns; 0 is the null pointer.      *)
(* A utilization is a fraction <<num, den>> with den > 0.                  *)
(***************************************************************************)
\* the mutant stamps last_capacity_update whenever the period had traffic
stamp_every_period(conn, current_time) ==
  IF conn.bytes_this_period > 0
  THEN [conn EXCEPT !.max_bytes_per_period =
                       Max(conn.max_bytes_per_period, conn.bytes_this_period),
                    !.last_capacity_update = current_time,
                    !.bytes_this_period = 0]
  ELSE IF conn.max_bytes_per_period > 0
          /\ (current_time - conn.last_capacity_update) > 60
       THEN [conn EXCEPT !.max_bytes_per_period = (conn.max_bytes_per_period * 8) \div 10]
       ELSE conn

update_connection_capacity_estimate(conn, current_time) ==
  IF conn.bytes_this_period > 0
  THEN IF conn.bytes_this_period > conn.max_bytes_per_period
       THEN [conn EXCEPT !.max_bytes_per_period = conn.bytes_this_period,
                         !.last_capacity_update = current_time,
                         !.bytes_this_period = 0]
       ELSE [conn EXCEPT !.bytes_this_period = 0]
  ELSE IF conn.max_bytes_per_period > 0
          /\ (current_time - conn.last_capacity_update) > 60
       THEN [conn EXCEPT !.max_bytes_per_period = (conn.max_bytes_per_period * 8) \div 10]
       ELSE conn

\* the mutant counts a failure at every update that finds the gap
count_every_symptom(conn, current_time) ==
  IF (current_time - conn.last_rcvd) > (CONN_TIMEOUT \div 2)
  THEN [conn EXCEPT !.successive_failures = conn.successive_failures + 1,
                    !.health_status = current_time]
  ELSE [conn EXCEPT !.health_status = 0, !.successive_failures = 0]

\* the mutant keeps the time of the symptom when the connection is healthy
keep_symptom_time(conn, current_time) ==
  IF (current_time - conn.last_rcvd) > (CONN_TIMEOUT \div 2)
  THEN IF conn.health_status = 0
       THEN [conn EXCEPT !.health_status = current_time, !.successive_failures = 0]
       ELSE IF (current_time - conn.health_status) > 5
            THEN [conn EXCEPT !.successive_failures = conn.successive_failures + 1,
                              !.health_status = current_time]
            ELSE conn
  ELSE [conn EXCEPT !.successive_failures = 0]

track_connection_health(conn, current_time) ==
  IF (current_time - conn.last_rcvd) > (CONN_TIMEOUT \div 2)
  THEN IF conn.health_status = 0
       THEN [conn EXCEPT !.health_status = current_time, !.successive_failures = 0]
       ELSE IF (current_time - conn.health_status) > 5
            THEN [conn EXCEPT !.successive_failures = conn.successive_failures + 1,
                              !.health_status = current_time]
            ELSE conn
  ELSE [conn EXCEPT !.health_status = 0, !.successive_failures = 0]

update_connection_capacity(w, gi, current_time) ==
  IF current_time - w.last_decay <= 30 THEN w
  ELSE [w EXCEPT !.last_decay = current_time,
                 !.groups[gi].conns =
                    [j \in DOMAIN w.groups[gi].conns |->
                       LET c1 == update_connection_capacity_estimate(
                                   w.groups[gi].conns[j], current_time)
                           c2 == [c1 EXCEPT !.bytes_sent = c1.bytes_sent \div 2]
                       IN  track_connection_health(c2, current_time)]]

\* the active predicate of get_active_connections
is_active(conn, current_time) ==
  (conn.last_rcvd + CONN_TIMEOUT) >= current_time /\ conn.successive_failures < 3

\* the indices of s that satisfy P, in the order of s
RECURSIVE Filter(_, _, _)
Filter(n, P(_), k) ==
  IF k > n THEN <<>>
  ELSE (IF P(k) THEN <<k>> ELSE <<>>) \o Filter(n, P, k + 1)

\* the mutant lists every connection of the group
get_all_connections(w, gi, current_time) ==
  [active |-> [j \in DOMAIN w.groups[gi].conns |-> j], w |-> w]

\* the mutant clamps at every call, whatever the time
clamp_at_every_call(w, gi, current_time) ==
  LET conns == w.groups[gi].conns
      Act(j) == is_active(conns[j], current_time)
  IN  [active |-> Filter(Len(conns), Act, 1),
       w |-> [w EXCEPT !.groups[gi].conns =
                [j \in DOMAIN conns |->
                   IF ~Act(j) /\ conns[j].successive_failures >= 3
                   THEN [conns[j] EXCEPT !.successive_failures = 2]
                   ELSE conns[j]]]]

\* get_active_connections: the active connections, and the connections
\* after the clamp of successive_failures on a 30-second tick
get_active_connections(w, gi, current_time) ==
  LET conns == w.groups[gi].conns
      Act(j) == is_active(conns[j], current_time)
  IN  [active |-> Filter(Len(conns), Act, 1),
       w |-> [w EXCEPT !.groups[gi].conns =
                [j \in DOMAIN conns |->
                   IF ~Act(j) /\ conns[j].successive_failures >= 3
                      /\ (current_time % 30) = 0
                   THEN [conns[j] EXCEPT !.successive_failures = 2]
                   ELSE conns[j]]]]

get_recovery_connections(w, gi) ==
  LET conns == w.groups[gi].conns
      Rec(j) == conns[j].recovery_attempts > 0 /\ conns[j].recovery_attempts < 5
  IN  Filter(Len(conns), Rec, 1)

\* a / b < c / d, for fractions with positive denominators
FracLess(x, y) == x[1] * y[2] < y[1] * x[2]

\* time_factor = max(0.01, min(30, current_time - last_decay) / 30), then
\* (bytes_this_period / time_factor) / max_bytes_per_period, capped at 2
Utilization(conn, current_time, last_decay) ==
  LET k == Min(30, current_time - last_decay)
      tf == IF 100 * k < 30 THEN <<1, 100>> ELSE <<k, 30>>
      u == <<conn.bytes_this_period * tf[2], tf[1] * conn.max_bytes_per_period>>
  IN  IF conn.max_bytes_per_period > 0
      THEN (IF FracLess(<<2, 1>>, u) THEN <<2, 1>> ELSE u)
      ELSE <<0, 1>>

calculate_conn_utilization(w, gi, active_conns, current_time) ==
  [k \in DOMAIN active_conns |->
     [conn |-> active_conns[k],
      u |-> Utilization(w.groups[gi].conns[active_conns[k]], current_time, w.last_decay)]]

\* the mutant is the fallback of another revision: the first connection
first_connection(w, gi) == 1

\* std::max_element on last_rcvd: the first of the largest
select_fallback_connection(w, gi) ==
  LET conns == w.groups[gi].conns
  IN  FirstIdx({j \in DOMAIN conns : \A k \in DOMAIN conns :
                   conns[k].last_rcvd <= conns[j].last_rcvd})

\* std::sort by utilization, ascending.  The order of equal elements is not
\* specified: pri (a ranking of the connections) decides it.
Rank(e, conn_utilization, pri) ==
  Cardinality({k \in DOMAIN conn_utilization :
                 \/ FracLess(conn_utilization[k].u, e.u)
                 \/ /\ ~FracLess(e.u, conn_utilization[k].u)
                    /\ pri[conn_utilization[k].conn] < pri[e.conn]})

SortByUtilization(conn_utilization, pri) ==
  [r \in DOMAIN conn_utilization |->
     CHOOSE e \in {conn_utilization[k] : k \in DOMAIN conn_utilization} :
       Rank(e, conn_utilization, pri) = r - 1]

\* the mutant rotates through all the sorted connections
select_over_all_sorted(conn_utilization, round_robin_counter, pri) ==
  SortByUtilization(conn_utilization, pri)[
    (round_robin_counter % Len(conn_utilization)) + 1].conn

select_based_on_available_capacity(conn_utilization, round_robin_counter, pri) ==
  LET sorted == SortByUtilization(conn_utilization, pri)
      half == Len(conn_utilization) \div 2
      available_conns == IF half = 0 THEN 1 ELSE half
      index == round_robin_counter % available_conns
  IN  sorted[index + 1].conn

\* lines 415-416: round_robin_counter++; the mutant leaves the counter
same_counter(rr) == rr

next_counter(rr) == rr + 1

\* lines 455-457: the selected connection's recovery_attempts is cleared; the
\* mutant leaves it
keep_recovery_attempts(w, gi, selected_conn) == w

reset_recovery_attempts(w, gi, selected_conn) ==
  IF w.groups[gi].conns[selected_conn].recovery_attempts > 0
  THEN [w EXCEPT !.groups[gi].conns[selected_conn].recovery_attempts = 0]
  ELSE w

\* select_connection_based_on_load: [w, sel]
select_connection_based_on_load(w, gi, active_conns, current_time, pri) ==
  LET conns == w.groups[gi].conns
      round_robin_counter == next_counter(w.rr)
      \* std::min_element on bytes_sent: the first of the smallest
      least_used == active_conns[FirstIdx({k \in DOMAIN active_conns :
                        \A m \in DOMAIN active_conns :
                          conns[active_conns[k]].bytes_sent
                            <= conns[active_conns[m]].bytes_sent})]
      conn_utilization == calculate_conn_utilization(w, gi, active_conns, current_time)
      any_at_capacity == \E k \in DOMAIN conn_utilization :
                            FracLess(<<7, 10>>, conn_utilization[k].u)
      selected_conn ==
        IF any_at_capacity
        THEN select_based_on_available_capacity(conn_utilization, round_robin_counter, pri)
        ELSE IF round_robin_counter % 3 = 0 THEN least_used
        ELSE active_conns[(round_robin_counter % Len(active_conns)) + 1]
      w1 == [w EXCEPT !.rr = round_robin_counter]
  IN  [w |-> reset_recovery_attempts(w1, gi, selected_conn), sel |-> selected_conn]

\* select_best_conn: [w, sel]; sel = 0 is nullptr
select_best_conn(w, gi, current_time, pri) ==
  IF gi = 0 \/ w.groups[gi].conns = <<>> THEN [w |-> w, sel |-> 0]
  ELSE LET w1 == update_connection_capacity(w, gi, current_time)
           a == get_active_connections(w1, gi, current_time)
           active_conns == IF a.active = <<>> THEN get_recovery_connections(a.w, gi)
                           ELSE a.active
       IN  IF active_conns = <<>>
           THEN [w |-> a.w, sel |-> select_fallback_connection(a.w, gi)]
           ELSE select_connection_based_on_load(a.w, gi, active_conns, current_time, pri)


(***************************************************************************)
(* handle_srt_data: one datagram read from the downstream socket of the    *)
(* group.  buf is what recv() returned (a failed recv reads as a datagram  *)
(* of length 0); fail is the set of addresses a sendto() to which fails.   *)
(***************************************************************************)
\* the mutant gives up at the first sendto() that fails
RECURSIVE broadcast_until_failure(_, _, _, _, _)
broadcast_until_failure(w, conns, buf, fail, j) ==
  IF j > Len(conns) THEN w
  ELSE IF conns[j].addr \in fail THEN SendTo(w, conns[j].addr, buf, FALSE)
  ELSE broadcast_until_failure(SendTo(w, conns[j].addr, buf, TRUE), conns, buf, fail, j + 1)

\* lines 770-774
RECURSIVE Broadcast(_, _, _, _, _)
Broadcast(w, conns, buf, fail, j) ==
  IF j > Len(conns) THEN w
  ELSE Broadcast(SendTo(w, conns[j].addr, buf, conns[j].addr \notin fail),
                 conns, buf, fail, j + 1)

\* lines 784-787; the mutant leaves bytes_this_period as it is
count_bytes_sent_only(w, gi, ci, n) ==
  [w EXCEPT !.groups[gi].conns[ci].bytes_sent = @ + n]

count_bytes(w, gi, ci, n) ==
  [w EXCEPT !.groups[gi].conns[ci].bytes_sent = @ + n,
            !.groups[gi].conns[ci].bytes_this_period = @ + n]

handle_srt_data(w, gi, buf, current_time, pri, fail) ==
  IF gi = 0 THEN w
  ELSE IF buf.len < SRT_MIN_LEN THEN remove_group(w, gi)
  ELSE IF is_srt_ack(buf) THEN Broadcast(w, w.groups[gi].conns, buf, fail, 1)
  ELSE LET s == select_best_conn(w, gi, current_time, pri)
       IN  IF s.sel # 0
           THEN LET best_conn == s.w.groups[gi].conns[s.sel]
                    ok == best_conn.addr \notin fail
                    w1 == SendTo(s.w, best_conn.addr, buf, ok)
                IN  IF ~ok THEN w1 ELSE count_bytes(w1, gi, s.sel, buf.len)
           ELSE SendTo(s.w, s.w.groups[gi].last_addr, buf,
                       s.w.groups[gi].last_addr \notin fail)

(***************************************************************************)
(* The janitor: cleanup_groups_connections and ping_all_connections.  The  *)
(* result of their sendto() calls is only logged.                          *)
(***************************************************************************)
Keepalive == Header(SRTLA_TYPE_KEEPALIVE)

RECURSIVE SendN(_, _, _, _)
SendN(w, to, data, n) ==
  IF n = 0 THEN w ELSE SendN(SendTo(w, to, data, TRUE), to, data, n - 1)

\* the mutant erases every connection it visits
erase_all_conns(w, conns, kept, ts) == [w |-> w, conns |-> <<>>]

\* line 944; the mutant erases at the selector's threshold
conn_inactive(conn, ts) == conn.last_rcvd + CONN_TIMEOUT < ts

conn_timed_out(conn, ts) == 2 * conn.last_rcvd + 3 * CONN_TIMEOUT < 2 * ts

\* lines 953-954; the mutant probes without a limit
should_always_attempt(conn, ts) == (conn.last_rcvd + (CONN_TIMEOUT \div 4)) < ts

should_attempt_recovery(conn, ts) ==
  /\ (conn.last_rcvd + (CONN_TIMEOUT \div 4)) < ts
  /\ conn.recovery_attempts < 5

\* the loop over the connections of one group (lines 941-972): conns is the
\* part of the vector still to visit, kept the part already visited
RECURSIVE CleanupConns(_, _, _, _)
CleanupConns(w, conns, kept, ts) ==
  IF conns = <<>> THEN [w |-> w, conns |-> kept]
  ELSE LET conn == Head(conns)
       IN  IF conn_timed_out(conn, ts)
           THEN CleanupConns(w, Tail(conns), kept, ts)
           ELSE IF should_attempt_recovery(conn, ts)
                THEN CleanupConns(SendN(w, conn.addr, Keepalive, 3), Tail(conns),
                                  Append(kept, [conn EXCEPT !.recovery_attempts = @ + 1]),
                                  ts)
                ELSE CleanupConns(w, Tail(conns), Append(kept, conn), ts)

\* line 974; the mutant keeps every group
group_kept(group, ts) == FALSE

group_timed_out(group, ts) == (group.created_at + GROUP_TIMEOUT) < ts

\* the loop over the groups (lines 936-983): gi is the group to visit
RECURSIVE CleanupGroups(_, _, _)
CleanupGroups(w, gi, ts) ==
  IF gi > Len(w.groups) THEN w
  ELSE LET group == w.groups[gi]
           before_conns == Len(group.conns)
           r == CleanupConns(w, group.conns, <<>>, ts)
           g1 == [group EXCEPT !.conns = r.conns]
           w1 == [r.w EXCEPT !.groups[gi] = g1]
       IN  IF g1.conns = <<>> /\ group_timed_out(g1, ts)
           THEN CleanupGroups(remove_group(w1, gi), gi, ts)
           ELSE CleanupGroups(
                  IF before_conns # Len(g1.conns)
                  THEN [w1 EXCEPT !.files = write_socket_info_file(w1.files, g1)]
                  ELSE w1,
                  gi + 1, ts)

\* cleanup_groups_connections: [w, last_ran]
cleanup_groups_connections(w, last_ran, ts) ==
  IF (last_ran + CLEANUP_PERIOD) > ts THEN [w |-> w, last_ran |-> last_ran]
  ELSE [w |-> CleanupGroups(w, 1, ts), last_ran |-> ts]

RECURSIVE PingConns(_, _, _, _)
PingConns(w, conns, j, ts) ==
  IF j > Len(conns) THEN w
  ELSE LET conn == conns[j]
           w1 == IF (ts - conn.last_rcvd) > (CONN_TIMEOUT \div 5)
                 THEN SendTo(w, conn.addr, Keepalive, TRUE) ELSE w
           w2 == IF conn.recovery_attempts > 0
                 THEN SendN(w1, conn.addr, Keepalive, 2) ELSE w1
       IN  PingConns(w2, conns, j + 1, ts)

RECURSIVE PingGroups(_, _, _)
PingGroups(w, gi, ts) ==
  IF gi > Len(w.groups) THEN w
  ELSE PingGroups(PingConns(w, w.groups[gi].conns, 1, ts), gi + 1, ts)

\* ping_all_connections: [w, last_ping]
ping_all_connections(w, last_ping, ts) ==
  IF (last_ping + 2) > ts THEN [w |-> w, last_ping |-> last_ping]
  ELSE [w |-> PingGroups(w, 1, ts), last_ping |-> ts]


(***************************************************************************)
(* The process.                                                            *)
(***************************************************************************)
VARIABLES
  conn_groups,          \* std::vector<srtla_conn_group_ptr> conn_groups
  files,                \* the socket info files: local port -> lines
  next_uid,             \* identity of the next group allocated
  g_last_decay_time,    \* static time_t g_last_decay_time
  round_robin_counter,  \* static in select_connection_based_on_load
  last_ran,             \* static in cleanup_groups_connections
  last_ping,            \* static in ping_all_connections
  now,                  \* the clock get_seconds() reads
  ts,                   \* main: the time read after epoll_wait()
  pc,                   \* main: "wait", "events", "cleanup" or "ping"
  left,                 \* main: events of the batch not dispatched (so far)
  ready,                \* main: the groups (uid) whose socket epoll_wait() watched
  out,                  \* the datagrams sent by the last step
  ev                    \* the last step: what was handled

vars == <<conn_groups, files, next_uid, g_last_decay_time, round_robin_counter,
          last_ran, last_ping, now, ts, pc, left, ready, out, ev>>

NoPkt == [b |-> <<0, 0, 0, 0>>, len |-> 0, id |-> NoId, acks |-> <<>>]
Ev(kind, src, pkt, uid) == [pkt |-> pkt, uid |-> uid, kind |-> kind, src |-> src]

Init ==
  /\ conn_groups = <<>>
  /\ files = <<>>
  /\ next_uid = 1
  /\ g_last_decay_time = 0
  /\ round_robin_counter = 0
  /\ last_ran = 0
  /\ last_ping = 0
  /\ now = StartTime
  /\ ts = 0
  /\ pc = "wait"
  /\ left = 0
  /\ ready = {}
  /\ out = <<>>
  /\ ev = Ev("init", NoAddr, NoPkt, 0)

World ==
  [groups |-> conn_groups, files |-> files, out |-> <<>>, next_uid |-> next_uid,
   last_decay |-> g_last_decay_time, rr |-> round_robin_counter]

Commit(w) ==
  /\ conn_groups' = w.groups
  /\ files' = w.files
  /\ out' = w.out
  /\ next_uid' = w.next_uid
  /\ g_last_decay_time' = w.last_decay
  /\ round_robin_counter' = w.rr

\* the clock advances by d seconds while the process waits in epoll_wait(),
\* up to maxTime seconds after the start
TickTo(d, maxTime) ==
  /\ pc = "wait"
  /\ now + d <= StartTime + maxTime
  /\ now' = now + d
  /\ out' = <<>>
  /\ ev' = Ev("tick", NoAddr, NoPkt, 0)
  /\ UNCHANGED <<conn_groups, files, next_uid, g_last_decay_time, round_robin_counter,
                 last_ran, last_ping, ts, pc, left, ready>>

Tick(d) == TickTo(d, MaxTime)

\* main, lines 1174-1177: epoll_wait() returns eventcnt events
EpollWait(eventcnt) ==
  /\ pc = "wait"
  /\ ts' = now
  /\ ready' = {conn_groups[i].uid : i \in {k \in DOMAIN conn_groups :
                                            conn_groups[k].srt_sock > 0}}
  /\ left' = eventcnt
  /\ pc' = IF eventcnt = 0 THEN "cleanup" ELSE "events"
  /\ out' = <<>>
  /\ ev' = Ev("wait", NoAddr, NoPkt, 0)
  /\ UNCHANGED <<conn_groups, files, next_uid, g_last_decay_time, round_robin_counter,
                 last_ran, last_ping, now>>

\* main, lines 1182-1196: the batch ends with its last event, or when the
\* handler has removed a group
\* the mutant dispatches every event of the batch
after_event_no_break(w) ==
  /\ left' = left - 1
  /\ pc' = IF left = 1 THEN "cleanup" ELSE "events"

AfterEvent(w) ==
  LET done == left = 1 \/ Len(w.groups) < Len(conn_groups)
  IN  /\ left' = left - 1
      /\ pc' = IF done THEN "cleanup" ELSE "events"

\* what bounds the run: the groups allocated, and the data registered on
\* the first connection of a group (maxData) and on any other (MaxData)
SrtlaAllowed(src, buf, maxData) ==
  LET f == group_find_by_addr(conn_groups, src)
  IN  /\ (is_srtla_reg1(buf) /\ ~registry_full(World) /\ f.g = 0) => next_uid <= MaxUid
      /\ (f.c # 0 /\ get_srt_sn(buf) >= 0 /\ ~is_srtla_reg1(buf) /\ ~is_srtla_reg2(buf))
           => conn_groups[f.g].conns[f.c].h_rcvd < (IF f.c = 1 THEN maxData ELSE MaxData)

\* main, line 1185: an event of srtla_sock
HandleSrtla(src, buf, server_id, ok, srt_io, maxData) ==
  /\ pc = "events"
  /\ SrtlaAllowed(src, buf, maxData)
  /\ \E w \in {handle_srtla_data(World, ts, src, buf, server_id, ok, srt_io)} :
       Commit(w) /\ AfterEvent(w)
  /\ ev' = Ev("srtla", src, buf, 0)
  /\ UNCHANGED <<last_ran, last_ping, now, ts, ready>>

SrtAllowed(gi, buf) ==
  (gi # 0 /\ buf.len >= SRT_MIN_LEN /\ ~is_srt_ack(buf)) =>
     /\ round_robin_counter < MaxSel
     /\ \A j \in DOMAIN conn_groups[gi].conns :
          /\ conn_groups[gi].conns[j].bytes_sent + buf.len <= MaxBytes
          /\ conn_groups[gi].conns[j].bytes_this_period + buf.len <= MaxBytes

\* main, lines 1187-1188: an event of the downstream socket of group i; the
\* group handled is the one group_find_by_id finds for its id, and recv()
\* fails when that group has no socket
HandleSrt(i, buf, pri, fail) ==
  /\ pc = "events"
  /\ i \in DOMAIN conn_groups
  /\ conn_groups[i].uid \in ready
  /\ LET gi == group_find_by_id(conn_groups, conn_groups[i].id)
         rbuf == IF conn_groups[gi].srt_sock < 0 THEN NoPkt ELSE buf
     IN  /\ SrtAllowed(gi, rbuf)
         /\ \E w \in {handle_srt_data(World, gi, rbuf, now, pri, fail)} :
              Commit(w) /\ AfterEvent(w)
         /\ ev' = Ev("srt", NoAddr, rbuf, conn_groups[gi].uid)
  /\ UNCHANGED <<last_ran, last_ping, now, ts, ready>>

\* main, line 1198
Cleanup ==
  /\ pc = "cleanup"
  /\ \E r \in {cleanup_groups_connections(World, last_ran, ts)} :
       Commit(r.w) /\ last_ran' = r.last_ran
  /\ pc' = "ping"
  /\ ev' = Ev("cleanup", NoAddr, NoPkt, 0)
  /\ UNCHANGED <<last_ping, now, ts, left, ready>>

\* main, line 1199
Ping ==
  /\ pc = "ping"
  /\ \E r \in {ping_all_connections(World, last_ping, ts)} :
       Commit(r.w) /\ last_ping' = r.last_ping
  /\ pc' = "wait"
  /\ ev' = Ev("ping", NoAddr, NoPkt, 0)
  /\ UNCHANGED <<last_ran, now, ts, left, ready>>

(***************************************************************************)
(* The datagrams of the environment.                                       *)
(***************************************************************************)
Nonces == 1..NumNonces
Randoms == 1..NumRandom

\* REG1: the nonce in bytes [2,18); bytes [18,34) are not read
Reg1(nonce) ==
  [b |-> htobe16(SRTLA_TYPE_REG1) \o <<0, 0>>, len |-> SRTLA_TYPE_REG1_LEN,
   id |-> <<nonce, 0>>, acks |-> <<>>]
Reg2(id) ==
  [b |-> htobe16(SRTLA_TYPE_REG2) \o <<0, 0>>, len |-> SRTLA_TYPE_REG2_LEN,
   id |-> id, acks |-> <<>>]
\* an SRT data packet of len bytes with sequence number sn
SrtData(sn, len) == [b |-> htobe32(sn), len |-> len, id |-> NoId, acks |-> <<>>]
\* an SRT control packet of the given type (32770 is ACK, 32771 NAK)
SrtControl(type) ==
  [b |-> htobe16(type) \o <<0, 0>>, len |-> SRT_MIN_LEN, id |-> NoId, acks |-> <<>>]
\* a datagram too short for SRT that is no keepalive
Short == [b |-> <<0, 0, 0, 7>>, len |-> 4, id |-> NoId, acks |-> <<>>]

Perms(n) == {p \in [1..n -> 1..n] : \A a, b \in 1..n : a # b => p[a] # p[b]}
Pris == Perms(MAX_CONNS_PER_GROUP)
Fails == {{}} \cup {{a} : a \in Addrs}

\* the events of srtla_sock, by the kind of datagram
RecvReg1(src, nonce, server_id, ok) ==
  HandleSrtla(src, Reg1(nonce), server_id, ok, "ok", MaxData)
RecvReg2(src, id, ok) == HandleSrtla(src, Reg2(id), 1, ok, "ok", MaxData)
RecvSmall(src, buf, ok) == HandleSrtla(src, buf, 1, ok, "ok", MaxData)
RecvSrt(src, buf, ok, srt_io, maxData) == HandleSrtla(src, buf, 1, ok, srt_io, maxData)

(***************************************************************************)
(* Spec: the registry.  Clients register groups and connections and send   *)
(* keepalives and data, the downstream server answers or its socket fails, *)
(* and the clock advances between two batches by 7 seconds, which takes a  *)
(* connection past its removal and a group past its timeout.               *)
(***************************************************************************)
Jumps == {7}

Next ==
  \/ \E d \in Jumps : Tick(d)
  \/ \E n \in 0..MaxBatch : EpollWait(n)
  \/ \E src \in Addrs, nonce \in Nonces, server_id \in Randoms, ok \in BOOLEAN :
       RecvReg1(src, nonce, server_id, ok)
  \/ \E src \in Addrs, id \in Nonces \X Randoms, ok \in BOOLEAN : RecvReg2(src, id, ok)
  \/ \E src \in Addrs, short \in BOOLEAN :
       RecvSmall(src, IF short THEN Short ELSE Keepalive, TRUE)
  \/ \E src \in Addrs, srt_io \in {"ok", "connect", "send"} :
       RecvSrt(src, SrtData(258, 16), TRUE, srt_io, MaxData)
  \/ \E i \in 1..MAX_GROUPS, failed \in BOOLEAN :
       HandleSrt(i, IF failed THEN NoPkt ELSE SrtControl(SRT_TYPE_ACK),
                 [j \in 1..MAX_CONNS_PER_GROUP |-> j], {})
  \/ Cleanup
  \/ Ping

Spec == Init /\ [][Next]_vars


(***************************************************************************)
(* What the claims speak of.  A step is named by ev' (what it handled) and *)
(* out' (what it sent); the registry before the step is the unprimed one.  *)
(***************************************************************************)
\* group g holds address a as a connection / owns it (connection or last_addr)
HasConn(g, a) == \E j \in DOMAIN g.conns : g.conns[j].addr = a
Owns(g, a) == HasConn(g, a) \/ g.last_addr = a

\* the group a 32-byte id names: the first of the registry that carries it
GroupOfId(id) ==
  IF \E i \in DOMAIN conn_groups : conn_groups[i].id = id
  THEN CHOOSE i \in DOMAIN conn_groups :
         /\ conn_groups[i].id = id
         /\ \A k \in DOMAIN conn_groups : conn_groups[k].id = id => i <= k
  ELSE 0

Reg1Step == ev'.kind = "srtla" /\ ev'.pkt.len = 34 /\ be16(ev'.pkt.b) = SRTLA_TYPE_REG1
Reg2Step == ev'.kind = "srtla" /\ ev'.pkt.len = 34 /\ be16(ev'.pkt.b) = SRTLA_TYPE_REG2

\* the step answered its sender with the 2-byte packet of the given type,
\* and sent nothing else
Replied(type) ==
  /\ Len(out') = 1
  /\ out'[1].sock = 0 /\ out'[1].to = ev'.src
  /\ out'[1].data = [b |-> <<type \div 256, type % 256, 0, 0>>, len |-> 2,
                     id |-> NoId, acks |-> <<>>]

\* no group, connection, file or counter of the process changed
NoStateChange ==
  UNCHANGED <<conn_groups, files, next_uid, g_last_decay_time, round_robin_counter,
              last_ran, last_ping>>

(***************************************************************************)
(* C1: in every reachable state no two connections of the registry, of the *)
(* same group or of different groups, have the same peer address, and no   *)
(* address is a connection of one group while it is a connection or the    *)
(* last_addr of another group.                                             *)
(***************************************************************************)
C1_AddressUnique ==
  /\ \A i \in DOMAIN conn_groups : \A j, k \in DOMAIN conn_groups[i].conns :
       j # k => conn_groups[i].conns[j].addr # conn_groups[i].conns[k].addr
  /\ \A i, k \in DOMAIN conn_groups : \A a \in Addrs :
       (i # k /\ HasConn(conn_groups[i], a)) => ~Owns(conn_groups[k], a)

\* two groups with connections, and a REG2 that asked for the one group from
\* an address of the other has just been refused
C1_Witness ==
  /\ Len(conn_groups) = 2
  /\ conn_groups[1].conns # <<>> /\ conn_groups[2].conns # <<>>
  /\ ev.kind = "srtla" /\ ev.pkt.len = 34 /\ be16(ev.pkt.b) = SRTLA_TYPE_REG2
  /\ \E i, k \in DOMAIN conn_groups :
       i # k /\ conn_groups[i].id = ev.pkt.id /\ conn_groups[k].id # ev.pkt.id
             /\ HasConn(conn_groups[k], ev.src)
  /\ Len(out) = 1 /\ be16(out[1].data.b) = SRTLA_TYPE_REG_ERR

(***************************************************************************)
(* C2: the registry never holds more than MAX_GROUPS groups and a group    *)
(* never more than MAX_CONNS_PER_GROUP connections; a REG1 that arrives    *)
(* when the registry is full, and a REG2 from an address new to its group  *)
(* that arrives when the group is full, are answered REG_ERR and add       *)
(* nothing.                                                                *)
(***************************************************************************)
C2_Caps ==
  /\ Len(conn_groups) <= MAX_GROUPS
  /\ \A i \in DOMAIN conn_groups : Len(conn_groups[i].conns) <= MAX_CONNS_PER_GROUP

C2_FullRefused ==
  /\ (Reg1Step /\ Len(conn_groups) >= MAX_GROUPS)
       => Replied(SRTLA_TYPE_REG_ERR) /\ NoStateChange
  /\ (/\ Reg2Step
      /\ GroupOfId(ev'.pkt.id) # 0
      /\ ~HasConn(conn_groups[GroupOfId(ev'.pkt.id)], ev'.src)
      /\ Len(conn_groups[GroupOfId(ev'.pkt.id)].conns) >= MAX_CONNS_PER_GROUP)
       => Replied(SRTLA_TYPE_REG_ERR) /\ NoStateChange

C2_Bounded == [](C2_Caps) /\ [][C2_FullRefused]_vars

\* a REG1 from an address no group owns has just been refused by a full registry
C2_Witness ==
  /\ Len(conn_groups) = MAX_GROUPS
  /\ ev.kind = "srtla" /\ ev.pkt.len = 34 /\ be16(ev.pkt.b) = SRTLA_TYPE_REG1
  /\ \A i \in DOMAIN conn_groups : ~Owns(conn_groups[i], ev.src)
  /\ Len(out) = 1 /\ be16(out[1].data.b) = SRTLA_TYPE_REG_ERR

(***************************************************************************)
(* C6: a REG1 from an address that a group owns (as a connection or as its *)
(* last_addr) is answered REG_ERR and changes no state.                    *)
(***************************************************************************)
C6_Reg1FromOwnedAddress ==
  [][(Reg1Step /\ \E i \in DOMAIN conn_groups : Owns(conn_groups[i], ev'.src))
       => Replied(SRTLA_TYPE_REG_ERR) /\ NoStateChange]_vars

\* the registry has room, and the REG1 just refused came from an address
\* that is the last_addr of a group and not one of its connections
C6_Witness ==
  /\ Len(conn_groups) < MAX_GROUPS
  /\ ev.kind = "srtla" /\ ev.pkt.len = 34 /\ be16(ev.pkt.b) = SRTLA_TYPE_REG1
  /\ \E i \in DOMAIN conn_groups :
       conn_groups[i].last_addr = ev.src /\ ~HasConn(conn_groups[i], ev.src)
  /\ Len(out) = 1 /\ be16(out[1].data.b) = SRTLA_TYPE_REG_ERR

(***************************************************************************)
(* C7: a REG2 for a (group, address) pair that is registered is answered   *)
(* REG3 and leaves the connections of the group as they are, the existing  *)
(* record included; a REG2 from an address new to the group that is        *)
(* answered REG3 appends exactly one connection, with last_rcvd = now.     *)
(***************************************************************************)
C7_Step ==
  LET gi == GroupOfId(ev'.pkt.id)
      src == ev'.src
  IN  /\ (Reg2Step /\ gi # 0 /\ HasConn(conn_groups[gi], src))
           => /\ Replied(SRTLA_TYPE_REG3)
              /\ Len(conn_groups') = Len(conn_groups)
              /\ \A i \in DOMAIN conn_groups :
                   conn_groups'[i].conns = conn_groups[i].conns
      /\ (/\ Reg2Step /\ gi # 0 /\ ~HasConn(conn_groups[gi], src)
          /\ Replied(SRTLA_TYPE_REG3) /\ out'[1].ok)
           => /\ Len(conn_groups') = Len(conn_groups)
              /\ \A i \in DOMAIN conn_groups :
                   i # gi => conn_groups'[i].conns = conn_groups[i].conns
              /\ Len(conn_groups'[gi].conns) = Len(conn_groups[gi].conns) + 1
              /\ SubSeq(conn_groups'[gi].conns, 1, Len(conn_groups[gi].conns))
                   = conn_groups[gi].conns
              /\ LET c == conn_groups'[gi].conns[Len(conn_groups'[gi].conns)]
                 IN  c.addr = src /\ c.last_rcvd = ts /\ c.recv_idx = 0

C7_Reg2Idempotent == [][C7_Step]_vars

\* a connection that has registered a data packet has just registered again
C7_Witness ==
  /\ ev.kind = "srtla" /\ ev.pkt.len = 34 /\ be16(ev.pkt.b) = SRTLA_TYPE_REG2
  /\ Len(out) = 1 /\ be16(out[1].data.b) = SRTLA_TYPE_REG3 /\ out[1].ok
  /\ \E i \in DOMAIN conn_groups : \E j \in DOMAIN conn_groups[i].conns :
       /\ conn_groups[i].id = ev.pkt.id
       /\ conn_groups[i].conns[j].addr = ev.src
       /\ conn_groups[i].conns[j].recv_idx = 1

(***************************************************************************)
(* C8: an accepted REG1 appends exactly one group whose id starts with the *)
(* 16 bytes after the opcode of the REG1, with last_addr the source, no    *)
(* connection and no downstream socket, and the REG2 reply carries the     *)
(* whole id of that group; the id of a group never changes; when the REG2  *)
(* cannot be sent the group is not inserted.                               *)
(***************************************************************************)
C8_Step ==
  /\ (Reg1Step /\ Len(out') = 1 /\ be16(out'[1].data.b) = SRTLA_TYPE_REG2)
       => /\ out'[1].sock = 0 /\ out'[1].to = ev'.src /\ out'[1].data.len = 34
          /\ out'[1].data.id[1] = ev'.pkt.id[1]
          /\ IF out'[1].ok
             THEN /\ Len(conn_groups') = Len(conn_groups) + 1
                  /\ SubSeq(conn_groups', 1, Len(conn_groups)) = conn_groups
                  /\ LET g == conn_groups'[Len(conn_groups')]
                     IN  /\ g.id = out'[1].data.id
                         /\ g.id[1] = ev'.pkt.id[1]
                         /\ g.last_addr = ev'.src
                         /\ g.conns = <<>>
                         /\ g.srt_sock = -1
             ELSE conn_groups' = conn_groups
  /\ (Reg1Step /\ ~(Len(out') = 1 /\ be16(out'[1].data.b) = SRTLA_TYPE_REG2))
       => conn_groups' = conn_groups
  /\ \A i \in DOMAIN conn_groups : \A k \in DOMAIN conn_groups' :
       conn_groups'[k].uid = conn_groups[i].uid => conn_groups'[k].id = conn_groups[i].id

C9_Step ==
  LET gi == GroupOfId(ev'.pkt.id)
      src == ev'.src
  IN  /\ (Reg2Step /\ gi = 0) => Replied(SRTLA_TYPE_REG_NGP) /\ NoStateChange
      /\ (Reg2Step /\ gi # 0
            /\ \E k \in DOMAIN conn_groups : k # gi /\ Owns(conn_groups[k], src))
           => Replied(SRTLA_TYPE_REG_ERR) /\ NoStateChange
      /\ (Reg2Step /\ gi # 0 /\ ~HasConn(conn_groups[gi], src)
            /\ Len(conn_groups[gi].conns) >= MAX_CONNS_PER_GROUP)
           => Replied(SRTLA_TYPE_REG_ERR) /\ NoStateChange

C9_Reg2Refused == [][C9_Step]_vars

\* a REG2 from an address no group owns has just been refused by a full group
C9_Witness ==
  /\ ev.kind = "srtla" /\ ev.pkt.len = 34 /\ be16(ev.pkt.b) = SRTLA_TYPE_REG2
  /\ Len(out) = 1 /\ be16(out[1].data.b) = SRTLA_TYPE_REG_ERR
  /\ \A i \in DOMAIN conn_groups : ~Owns(conn_groups[i], ev.src)
  /\ \E i \in DOMAIN conn_groups :
       conn_groups[i].id = ev.pkt.id /\ Len(conn_groups[i].conns) = MAX_CONNS_PER_GROUP


(***************************************************************************)
(* SpecAck: the SRTLA ACK batching.  The clock stands still; the clients   *)
(* of one group register, and every address sends keepalives, short        *)
(* datagrams, SRT control packets and SRT data packets, which it numbers   *)
(* consecutively from 250 times its address on.  The first connection of a *)
(* group registers up to AckData data packets, which is two ACKs and the   *)
(* start of a third batch.                                                 *)
(***************************************************************************)
AckData == 21

\* the sequence number of the next data packet of the client at src
NextSn(src) ==
  LET f == group_find_by_addr(conn_groups, src)
  IN  250 * src + (IF f.c = 0 THEN 0 ELSE conn_groups[f.g].conns[f.c].h_rcvd)

NextAck ==
  \/ EpollWait(1)
  \/ RecvReg1(1, 1, 1, TRUE)
  \/ \E src \in Addrs, ok \in BOOLEAN : RecvReg2(src, <<1, 1>>, ok)
  \/ \E src \in Addrs, short \in BOOLEAN, ok \in BOOLEAN :
       RecvSmall(src, IF short THEN Short ELSE Keepalive, ok)
  \/ \E src \in Addrs, ok \in BOOLEAN :
       \E buf \in {SrtControl(SRT_TYPE_ACK), SrtData(NextSn(src), SRT_MIN_LEN)} :
         RecvSrt(src, buf, ok, "ok", AckData)
  \/ Cleanup
  \/ Ping

SpecAck == Init /\ [][NextAck]_vars

\* the step handled a datagram of a registered connection that is no
\* registration: conn is the connection before the step
ConnOfSrc(src) ==
  LET S == {p \in (DOMAIN conn_groups) \X (1..MAX_CONNS_PER_GROUP) :
              /\ p[2] \in DOMAIN conn_groups[p[1]].conns
              /\ conn_groups[p[1]].conns[p[2]].addr = src}
  IN  IF S = {} THEN <<0, 0>> ELSE CHOOSE p \in S : TRUE

\* the SRTLA ACKs among the datagrams of the step
AcksSent == {k \in DOMAIN out' : out'[k].data.len = 44 /\ out'[k].data.b = <<145, 0, 0, 0>>}

\* the datagram handled is an SRT data packet: 16 bytes or more, first bit clear
DataStep ==
  /\ ev'.kind = "srtla" /\ ev'.pkt.len >= 16 /\ ev'.pkt.b[1] < 128
  /\ ~Reg1Step /\ ~Reg2Step

\* big-endian bytes of a sequence number
Bytes(sn) == <<(sn \div 16777216) % 256, (sn \div 65536) % 256, (sn \div 256) % 256, sn % 256>>
SnOf(pkt) == ((pkt.b[1] * 256 + pkt.b[2]) * 256 + pkt.b[3]) * 256 + pkt.b[4]

(***************************************************************************)
(* C3: a connection that has registered k SRT data packets since it was    *)
(* created has been sent exactly k \div 10 SRTLA ACKs, each while the 10th,*)
(* 20th, ... packet was handled; its recv_idx is k % 10, so between 0 and  *)
(* RECV_ACK_INT - 1, and 0 after an ACK.  Keepalives, short datagrams, SRT *)
(* control packets and a repeated REG2 leave the count as it is.           *)
(***************************************************************************)
C3_Counts ==
  \A i \in DOMAIN conn_groups : \A j \in DOMAIN conn_groups[i].conns :
    LET c == conn_groups[i].conns[j]
    IN  /\ c.h_acks = c.h_rcvd \div RECV_ACK_INT
        /\ c.recv_idx = c.h_rcvd % RECV_ACK_INT
        /\ 0 <= c.recv_idx /\ c.recv_idx < RECV_ACK_INT

C3_Step ==
  LET p == ConnOfSrc(ev'.src)
      c == conn_groups[p[1]].conns[p[2]]
      d == conn_groups'[p[1]].conns[p[2]]
  IN  (ev'.kind = "srtla" /\ p[1] # 0) =>
        /\ DataStep =>
             /\ d.h_rcvd = c.h_rcvd + 1
             /\ d.h_acks - c.h_acks = Cardinality(AcksSent)
             /\ Cardinality(AcksSent) = (IF d.h_rcvd % RECV_ACK_INT = 0 THEN 1 ELSE 0)
             /\ \A k \in AcksSent : out'[k].sock = 0 /\ out'[k].to = ev'.src
             /\ AcksSent # {} => d.recv_idx = 0
        /\ ~DataStep =>
             /\ AcksSent = {}
             /\ d.h_rcvd = c.h_rcvd /\ d.h_acks = c.h_acks /\ d.recv_idx = c.recv_idx
             /\ d.recv_log = c.recv_log

C3_OneAckPerTen == [](C3_Counts) /\ [][C3_Step]_vars

\* a connection has just been sent its second ACK, with its 20th packet,
\* while another connection of the group is one packet into its first batch
C3_Witness ==
  \E i \in DOMAIN conn_groups : \E j, k \in DOMAIN conn_groups[i].conns :
    /\ conn_groups[i].conns[j].h_rcvd = 2 * RECV_ACK_INT
    /\ conn_groups[i].conns[j].h_acks = 2
    /\ conn_groups[i].conns[j].recv_idx = 0
    /\ conn_groups[i].conns[k].h_rcvd = 1
    /\ ev.kind = "srtla" /\ ev.src = conn_groups[i].conns[j].addr
    /\ Len(out) = 2 /\ out[1].data.len = 44

(***************************************************************************)
(* C4: the SRTLA ACK sent while a data packet of a connection is handled   *)
(* goes to the address of that connection and lists, in network byte order *)
(* and in the order of their arrival, the sequence numbers of the nine     *)
(* packets the connection registered since its last ACK (or since it was   *)
(* created) followed by the one being handled: ten numbers, none of them   *)
(* registered by another connection, none of them listed by an earlier ACK.*)
(***************************************************************************)
C4_Step ==
  LET p == ConnOfSrc(ev'.src)
      c == conn_groups[p[1]].conns[p[2]]
      d == conn_groups'[p[1]].conns[p[2]]
      batch == c.h_pending \o <<SnOf(ev'.pkt)>>
  IN  (DataStep /\ p[1] # 0) =>
        /\ d.h_pending = (IF AcksSent = {} THEN batch ELSE <<>>)
        /\ \A k \in AcksSent :
             /\ out'[k].to = c.addr /\ out'[k].sock = 0
             /\ Len(batch) = RECV_ACK_INT
             /\ out'[k].data.acks = [n \in 1..RECV_ACK_INT |-> Bytes(batch[n])]
             /\ \A n \in 1..RECV_ACK_INT :
                  batch[n] = 250 * c.addr + (d.h_acks - 1) * RECV_ACK_INT + n - 1
        /\ \A i \in DOMAIN conn_groups : \A j \in DOMAIN conn_groups[i].conns :
             <<i, j>> # p => conn_groups'[i].conns[j].h_pending = conn_groups[i].conns[j].h_pending

C4_AckCarriesBatch == [][C4_Step]_vars

\* the second ACK of a connection has just been sent, while another
\* connection of the group holds a packet that no ACK has listed
C4_Witness ==
  /\ ev.kind = "srtla" /\ ev.pkt.len >= 16 /\ ev.pkt.b[1] < 128
  /\ Len(out) = 2 /\ out[1].data.len = 44 /\ out[1].to = ev.src
  /\ \E i \in DOMAIN conn_groups : \E j, k \in DOMAIN conn_groups[i].conns :
       /\ conn_groups[i].conns[j].addr = ev.src
       /\ conn_groups[i].conns[j].h_acks = 2
       /\ conn_groups[i].conns[k].h_pending # <<>>
       /\ j # k

(***************************************************************************)
(* C10: a KEEPALIVE from a registered connection is sent back to its       *)
(* sender as it came, in one datagram of 2 bytes; nothing goes to the      *)
(* downstream socket, no downstream socket is opened, and recv_log and     *)
(* recv_idx of the connection stay as they are.                            *)
(***************************************************************************)
C10_Step ==
  LET p == ConnOfSrc(ev'.src)
  IN  (/\ ev'.kind = "srtla" /\ p[1] # 0
       /\ ev'.pkt.len = 2 /\ be16(ev'.pkt.b) = SRTLA_TYPE_KEEPALIVE) =>
        /\ Len(out') = 1
        /\ out'[1].sock = 0 /\ out'[1].to = ev'.src
        /\ out'[1].data = ev'.pkt /\ out'[1].data.len = 2
        /\ Len(conn_groups') = Len(conn_groups)
        /\ \A i \in DOMAIN conn_groups :
             /\ conn_groups'[i].srt_sock = conn_groups[i].srt_sock
             /\ Len(conn_groups'[i].conns) = Len(conn_groups[i].conns)
             /\ \A j \in DOMAIN conn_groups[i].conns :
                  /\ conn_groups'[i].conns[j].recv_log = conn_groups[i].conns[j].recv_log
                  /\ conn_groups'[i].conns[j].recv_idx = conn_groups[i].conns[j].recv_idx
        /\ files' = files

C10_KeepaliveEchoed == [][C10_Step]_vars

\* a keepalive has just been echoed to a connection of a group that has no
\* downstream socket
C10_Witness ==
  /\ ev.kind = "srtla" /\ ev.pkt.len = 2 /\ be16(ev.pkt.b) = SRTLA_TYPE_KEEPALIVE
  /\ Len(out) = 1 /\ out[1].data = ev.pkt /\ out[1].to = ev.src
  /\ \E i \in DOMAIN conn_groups : \E j \in DOMAIN conn_groups[i].conns :
       /\ conn_groups[i].conns[j].addr = ev.src
       /\ conn_groups[i].srt_sock = -1


(***************************************************************************)
(* SpecSel: the selector.  At the start one group registers with two       *)
(* connections, client 1 before client 2, and a data packet opens its      *)
(* downstream socket; from then on the two clients send keepalives.  In    *)
(* every SelPeriod seconds the process takes three batches 3 seconds apart *)
(* and is then kept from running for the rest of the period (the datagrams *)
(* that arrive meanwhile are read in the next batch, before the janitor    *)
(* runs); the downstream server sends an SRT data packet for the last of   *)
(* the three.  This goes on for SelTime seconds: long enough for four      *)
(* rounds of the 30-second maintenance.                                    *)
(***************************************************************************)
SelTime == 96
SelPeriod == 31
SelBatch == 2

\* the seconds to the next batch
SelJump == IF (now - StartTime) % SelPeriod = 3 THEN SelPeriod - 6 ELSE 3

NextSel ==
  \/ TickTo(SelJump, SelTime)
  \/ \E n \in 1..SelBatch : EpollWait(n)
  \/ now = StartTime /\ RecvReg1(1, 1, 1, TRUE)
  \/ /\ now = StartTime
     /\ \E src \in 1..2 :
          /\ \E i \in DOMAIN conn_groups : Len(conn_groups[i].conns) >= src - 1
          /\ RecvReg2(src, <<1, 1>>, TRUE)
  \/ now = StartTime /\ RecvSrt(1, SrtData(258, SRT_MIN_LEN), TRUE, "ok", MaxData)
  \/ \E src \in 1..2 : RecvSmall(src, Keepalive, TRUE)
  \/ /\ now - g_last_decay_time > 30
     /\ (now - StartTime) % SelPeriod = 3
     /\ HandleSrt(1, SrtData(7, SRT_MIN_LEN), [j \in 1..MAX_CONNS_PER_GROUP |-> j], {})
  \/ Cleanup
  \/ Ping

SpecSel == Init /\ [][NextSel]_vars

\* the step ran the selector: it handled a datagram of the downstream socket
\* of a group with connections that is long enough and no SRT ACK; gi is
\* the group, and the connection returned is the one the datagram went to
SelGroup ==
  IF \E i \in DOMAIN conn_groups : conn_groups[i].uid = ev'.uid
  THEN CHOOSE i \in DOMAIN conn_groups : conn_groups[i].uid = ev'.uid ELSE 0

SelectStep ==
  /\ ev'.kind = "srt" /\ ev'.pkt.len >= 16
  /\ ~(ev'.pkt.b[1] = 128 /\ ev'.pkt.b[2] = 2)
  /\ SelGroup # 0
  /\ conn_groups[SelGroup].conns # <<>>

\* the active predicate, at the time of the call
Active(conn) == conn.last_rcvd + 4 >= now /\ conn.successive_failures < 3

\* C5 as the specification states it: a call of the selector made while a
\* connection of the group satisfies the active predicate returns a
\* connection that satisfies it
C5_Original ==
  [][(SelectStep /\ \E j \in DOMAIN conn_groups[SelGroup].conns :
                       Active(conn_groups[SelGroup].conns[j]))
       => /\ Len(out') = 1
          /\ \E j \in DOMAIN conn_groups[SelGroup].conns :
               /\ conn_groups[SelGroup].conns[j].addr = out'[1].to
               /\ Active(conn_groups[SelGroup].conns[j])]_vars

(***************************************************************************)
(* C5: a call of the selector on a group with connections first runs the   *)
(* capacity and health maintenance, when it is due.  If a connection of    *)
(* the group satisfies the active predicate after that, the connection     *)
(* returned satisfies it, then and when the call returns.                  *)
(***************************************************************************)
C5_Step ==
  LET gi == SelGroup
      kept == update_connection_capacity(World, gi, now).groups[gi].conns
  IN  (SelectStep /\ \E j \in DOMAIN kept : Active(kept[j]))
        => /\ Len(out') = 1 /\ out'[1].sock = 0
           /\ \E j \in DOMAIN kept :
                /\ kept[j].addr = out'[1].to
                /\ Active(kept[j])
                /\ conn_groups'[gi].conns[j].addr = out'[1].to
                /\ Active(conn_groups'[gi].conns[j])

C5_ReturnsActive == [][C5_Step]_vars

\* the selector has just returned the one active connection of a group
\* whose other connection has been silent for more than CONN_TIMEOUT
C5_Witness ==
  /\ ev.kind = "srt" /\ ev.pkt.len >= 16 /\ Len(out) = 1
  /\ Len(conn_groups) = 1 /\ Len(conn_groups[1].conns) = 2
  /\ \E j, k \in 1..2 :
       /\ conn_groups[1].conns[j].addr = out[1].to
       /\ Active(conn_groups[1].conns[j])
       /\ conn_groups[1].conns[k].last_rcvd + 4 < now


(***************************************************************************)
(* The uplink path, in Spec.  A step is an uplink step when it handled a   *)
(* datagram that is no REG1 and no REG2 and whose source is the address of *)
(* a connection; the group of that connection survives the step when a     *)
(* group of the same identity is in the registry after it.                 *)
(***************************************************************************)
UplinkStep ==
  /\ ev'.kind = "srtla" /\ ~Reg1Step /\ ~Reg2Step
  /\ ConnOfSrc(ev'.src)[1] # 0

\* C11 as the specification states it: every uplink step, a keepalive and a
\* short datagram included, leaves c.last_rcvd = now and g.last_addr = src
C11_Original ==
  [][LET p == ConnOfSrc(ev'.src)
     IN  UplinkStep =>
           \A i \in DOMAIN conn_groups' :
             conn_groups'[i].uid = conn_groups[p[1]].uid =>
               /\ conn_groups'[i].conns[p[2]].last_rcvd = now
               /\ conn_groups'[i].last_addr = ev'.src]_vars

(***************************************************************************)
(* C11: a datagram (no REG1, no REG2) from the address of a connection c   *)
(* of group g, a keepalive and a datagram shorter than 16 bytes included,  *)
(* leaves c.last_rcvd at the time the batch read after epoll_wait().  It   *)
(* leaves g.last_addr at the source address when it is 16 bytes or longer  *)
(* and g outlives the step; a keepalive and a shorter datagram leave       *)
(* g.last_addr as it was.                                                  *)
(***************************************************************************)
C11_Step ==
  LET p == ConnOfSrc(ev'.src)
      g == conn_groups[p[1]]
  IN  UplinkStep =>
        \A i \in DOMAIN conn_groups' :
          conn_groups'[i].uid = g.uid =>
            /\ Len(conn_groups'[i].conns) = Len(g.conns)
            /\ conn_groups'[i].conns[p[2]].addr = ev'.src
            /\ conn_groups'[i].conns[p[2]].last_rcvd = ts /\ ts = now
            /\ conn_groups'[i].last_addr =
                 (IF ev'.pkt.len >= 16 THEN ev'.src ELSE g.last_addr)

C11_LastRcvdAndLastAddr == [][C11_Step]_vars

\* seconds after it registered, a connection has just sent a short datagram
\* while the last_addr of its group is the address of another client
C11_Witness ==
  /\ ev.kind = "srtla" /\ ev.pkt.len = 4
  /\ \E i \in DOMAIN conn_groups : \E j \in DOMAIN conn_groups[i].conns :
       /\ conn_groups[i].conns[j].addr = ev.src
       /\ conn_groups[i].conns[j].last_rcvd = ts
       /\ ts > conn_groups[i].created_at
       /\ conn_groups[i].last_addr \notin {NoAddr, ev.src}


(***************************************************************************)
(* SpecFwd: the forwarding.  The environment of SpecAck, in which every    *)
(* call on the downstream socket may fail: socket(), connect(),            *)
(* epoll_add() when the socket is opened, and send().  A group that is     *)
(* removed registers again.                                                *)
(***************************************************************************)
FwdData == 3

NextFwd ==
  \/ EpollWait(1)
  \/ RecvReg1(1, 1, 1, TRUE)
  \/ \E src \in Addrs : RecvReg2(src, <<1, 1>>, TRUE)
  \/ \E src \in Addrs, short \in BOOLEAN :
       RecvSmall(src, IF short THEN Short ELSE Keepalive, TRUE)
  \/ \E src \in Addrs, control \in BOOLEAN, ok \in BOOLEAN, srt_io \in SrtIo :
       RecvSrt(src, IF control THEN SrtControl(SRT_TYPE_ACK)
                    ELSE SrtData(NextSn(src), SRT_MIN_LEN), ok, srt_io, FwdData)
  \/ Cleanup
  \/ Ping

SpecFwd == Init /\ [][NextFwd]_vars

\* the datagrams the step wrote to a downstream socket
DownWrites == {k \in DOMAIN out' : out'[k].sock # 0}

(***************************************************************************)
(* C12: a step writes to a downstream socket only when it handles a        *)
(* datagram of at least 16 bytes (no REG1, no REG2, no keepalive) from the *)
(* address of a connection, and then it writes that datagram, once and as  *)
(* it came, to the socket of the group of the connection and to no other.  *)
(* The group outlives the step exactly when the write succeeded.  As a     *)
(* step handles one datagram, the datagrams written to the socket of a     *)
(* group are those received, in the order of their arrival.                *)
(***************************************************************************)
C12_Step ==
  LET p == ConnOfSrc(ev'.src)
      g == conn_groups[p[1]]
      forwards == UplinkStep /\ ev'.pkt.len >= 16
      survives == \E i \in DOMAIN conn_groups' : conn_groups'[i].uid = g.uid
  IN  /\ ~forwards => DownWrites = {}
      /\ forwards =>
           /\ Cardinality(DownWrites) <= 1
           /\ \A k \in DownWrites :
                /\ out'[k].data = ev'.pkt
                /\ g.srt_sock > 0 => out'[k].sock = g.srt_sock
                /\ \A i \in DOMAIN conn_groups :
                     i # p[1] => conn_groups[i].srt_sock # out'[k].sock
           /\ survives <=> \E k \in DownWrites : out'[k].ok
           /\ \A i \in DOMAIN conn_groups' : \A k \in DownWrites :
                conn_groups'[i].uid = g.uid => conn_groups'[i].srt_sock = out'[k].sock

C12_ForwardedInOrder == [][C12_Step]_vars

\* an SRT control packet of one connection has just been forwarded on the
\* socket that a data packet of another connection of the group had opened
C12_Witness ==
  /\ ev.kind = "srtla" /\ ev.pkt.len >= 16 /\ ev.pkt.b[1] >= 128
  /\ \E i \in DOMAIN conn_groups : \E j, k \in DOMAIN conn_groups[i].conns :
       /\ conn_groups[i].conns[j].addr = ev.src
       /\ j # k /\ conn_groups[i].conns[k].h_rcvd > 0
       /\ conn_groups[i].conns[j].h_rcvd = 0
       /\ \E n \in DOMAIN out :
            /\ out[n].sock = conn_groups[i].srt_sock /\ out[n].sock > 0
            /\ out[n].data = ev.pkt /\ out[n].ok


(***************************************************************************)
(* SpecDown: the downstream path.  At the start one group registers with   *)
(* up to two connections and a data packet opens its downstream socket;    *)
(* from then on the clients send keepalives and the downstream server      *)
(* sends SRT ACKs and SRT data packets, while a sendto() to any one client *)
(* may fail.  The clock advances by 5 seconds, which makes a silent        *)
(* connection inactive, and then by 31 while the process is kept from      *)
(* running, after which the maintenance of the selector runs a second      *)
(* time.                                                                   *)
(***************************************************************************)
DownTime == 36
DownBatch == 1

\* the seconds to the next batch
DownJump == IF now = StartTime THEN 5 ELSE 31

NextDown ==
  \/ TickTo(DownJump, DownTime)
  \/ \E n \in 1..DownBatch : EpollWait(n)
  \/ now = StartTime /\ RecvReg1(1, 1, 1, TRUE)
  \/ now = StartTime /\ \E src \in 1..2 : RecvReg2(src, <<1, 1>>, TRUE)
  \/ now = StartTime /\ RecvSrt(1, SrtData(258, SRT_MIN_LEN), TRUE, "ok", MaxData)
  \/ \E src \in 1..2 : RecvSmall(src, Keepalive, TRUE)
  \/ \E ack \in BOOLEAN, pri \in Pris, fail \in Fails :
       HandleSrt(1, IF ack THEN SrtControl(SRT_TYPE_ACK) ELSE SrtData(7, SRT_MIN_LEN),
                 pri, fail)
  \/ Cleanup
  \/ Ping

SpecDown == Init /\ [][NextDown]_vars


\* the step handled a datagram read from the downstream socket of a group:
\* DownGroup is the group, in the registry before the step
DownGroup ==
  IF \E i \in DOMAIN conn_groups : conn_groups[i].uid = ev'.uid
  THEN CHOOSE i \in DOMAIN conn_groups : conn_groups[i].uid = ev'.uid ELSE 0

\* the datagram is an SRT ACK: a control packet of type 2
SrtAckStep ==
  /\ ev'.kind = "srt" /\ DownGroup # 0
  /\ ev'.pkt.len >= 16 /\ ev'.pkt.b[1] = 128 /\ ev'.pkt.b[2] = 2

(***************************************************************************)
(* C13: an SRT ACK read from the downstream socket of a group is sent, as  *)
(* it came, once to each connection of the group and to no other address,  *)
(* whether the sendto() before it failed or not; the selector is not       *)
(* called, and no connection, byte counter, recovery counter, the          *)
(* round-robin counter or the time of the last maintenance changes.        *)
(***************************************************************************)
C13_Step ==
  SrtAckStep =>
    LET g == conn_groups[DownGroup]
    IN  /\ Len(out') = Len(g.conns)
        /\ \A k \in DOMAIN out' :
             /\ out'[k].sock = 0
             /\ out'[k].to = g.conns[k].addr
             /\ out'[k].data = ev'.pkt
        /\ conn_groups' = conn_groups
        /\ round_robin_counter' = round_robin_counter
        /\ g_last_decay_time' = g_last_decay_time
        /\ files' = files

C13_AckBroadcast == [][C13_Step]_vars

\* an SRT ACK has just gone to the two connections of a group, of which the
\* first sendto() failed, at a time when the maintenance of the selector is due
C13_Witness ==
  /\ ev.kind = "srt" /\ ev.pkt.len >= 16 /\ ev.pkt.b[1] = 128 /\ ev.pkt.b[2] = 2
  /\ Len(out) = 2 /\ ~out[1].ok /\ out[2].ok
  /\ out[1].to # out[2].to
  /\ now - g_last_decay_time > 30 /\ g_last_decay_time > 0
  /\ \E i \in DOMAIN conn_groups :
       /\ conn_groups[i].uid = ev.uid /\ Len(conn_groups[i].conns) = 2
       /\ conn_groups[i].conns[1].bytes_sent > 0


\* the datagram read from the downstream socket is 16 bytes or longer and
\* no SRT ACK
SrtDataStep ==
  /\ ev'.kind = "srt" /\ DownGroup # 0
  /\ ev'.pkt.len >= 16 /\ ~(ev'.pkt.b[1] = 128 /\ ev'.pkt.b[2] = 2)

\* no byte counter of a connection of group i changes in the step
BytesUnchanged(i) ==
  \A k \in DOMAIN conn_groups[i].conns :
    /\ conn_groups'[i].conns[k].bytes_sent = conn_groups[i].conns[k].bytes_sent
    /\ conn_groups'[i].conns[k].bytes_this_period
         = conn_groups[i].conns[k].bytes_this_period

\* C14 as the specification states it, in what it says of the address and
\* of a send that fails: the datagram goes to one address, that of a
\* connection of the group (g.last_addr if there is none), and when the
\* send fails no byte counter changes
C14_Original ==
  [][SrtDataStep =>
       LET gi == DownGroup
           g == conn_groups[gi]
       IN  /\ Len(out') = 1 /\ out'[1].sock = 0 /\ out'[1].data = ev'.pkt
           /\ g.conns = <<>> => out'[1].to = g.last_addr
           /\ g.conns # <<>> => \E j \in DOMAIN g.conns : out'[1].to = g.conns[j].addr
           /\ (g.conns = <<>> \/ ~out'[1].ok) => BytesUnchanged(gi)]_vars

(***************************************************************************)
(* C14: a datagram of 16 bytes or more read from the downstream socket of  *)
(* a group that is no SRT ACK is sent to one address: that of a connection *)
(* of the group, or g.last_addr when the group has no connection.  When    *)
(* the maintenance of the selector is due (more than 30 seconds since the  *)
(* last one) and the group has connections, the call first halves          *)
(* bytes_sent and zeroes bytes_this_period of each of them.  To the values *)
(* so obtained, a successful send adds the length of the datagram in both  *)
(* counters of the connection sent to; the counters of the other           *)
(* connections, and on a failed send those of every connection, get        *)
(* nothing added.                                                          *)
(***************************************************************************)
C14_Step ==
  LET gi == DownGroup
      g == conn_groups[gi]
      h == conn_groups'[gi]
      due == now - g_last_decay_time > 30
      sent(j) == IF due THEN g.conns[j].bytes_sent \div 2 ELSE g.conns[j].bytes_sent
      period(j) == IF due THEN 0 ELSE g.conns[j].bytes_this_period
      added(j, k) == IF j = k /\ out'[1].ok THEN ev'.pkt.len ELSE 0
  IN  SrtDataStep =>
        /\ Len(conn_groups') = Len(conn_groups) /\ Len(h.conns) = Len(g.conns)
        /\ Len(out') = 1 /\ out'[1].sock = 0 /\ out'[1].data = ev'.pkt
        /\ g.conns = <<>> => out'[1].to = g.last_addr /\ h = g
        /\ g.conns # <<>> =>
             \E j \in DOMAIN g.conns :
               /\ out'[1].to = g.conns[j].addr /\ h.conns[j].addr = g.conns[j].addr
               /\ \A k \in DOMAIN g.conns :
                    /\ h.conns[k].bytes_sent = sent(k) + added(j, k)
                    /\ h.conns[k].bytes_this_period = period(k) + added(j, k)

C14_OneAddressAndBytes == [][C14_Step]_vars

\* the send of a data packet to a connection has just failed, in a call
\* whose maintenance halved the bytes_sent of the two connections of the group
C14_Witness ==
  /\ ev.kind = "srt" /\ ev.pkt.len >= 16 /\ ev.pkt.b[1] < 128
  /\ Len(out) = 1 /\ ~out[1].ok
  /\ g_last_decay_time = now /\ now > StartTime + 30
  /\ \E i \in DOMAIN conn_groups :
       /\ conn_groups[i].uid = ev.uid /\ Len(conn_groups[i].conns) = 2
       /\ \E j \in 1..2 : conn_groups[i].conns[j].addr = out[1].to
       /\ \A j \in 1..2 :
            /\ conn_groups[i].conns[j].bytes_sent > 0
            /\ conn_groups[i].conns[j].bytes_this_period = 0
            /\ conn_groups[i].conns[j].max_bytes_per_period > 0


(***************************************************************************)
(* C15: in every state between two steps, the socket info file of a local  *)
(* port exists exactly when a group of the registry has a downstream       *)
(* socket with that port: a group without a socket has no file, the file   *)
(* is there from the step that opens the socket on, whatever happens to    *)
(* the connections of the group, and it is gone with the step that removes *)
(* the group.                                                              *)
(***************************************************************************)
C15_FileIffSocket ==
  /\ \A i \in DOMAIN conn_groups :
       conn_groups[i].srt_sock # -1 =>
         /\ conn_groups[i].srt_sock > 0
         /\ conn_groups[i].srt_sock \in DOMAIN files
         /\ \A k \in DOMAIN conn_groups :
              k # i => conn_groups[k].srt_sock # conn_groups[i].srt_sock
  /\ \A port \in DOMAIN files :
       \E i \in DOMAIN conn_groups : conn_groups[i].srt_sock = port

\* one group has a downstream socket, and a file that lists the two
\* connections it has by now; another group has neither socket nor file,
\* and a group has been removed before
C15_Witness ==
  /\ Len(conn_groups) = 2 /\ next_uid > 3
  /\ \E i, k \in DOMAIN conn_groups :
       /\ conn_groups[i].srt_sock > 0
       /\ Len(conn_groups[i].conns) = 2
       /\ Len(files[conn_groups[i].srt_sock]) = 2
       /\ conn_groups[k].srt_sock = -1
       /\ DOMAIN files = {conn_groups[i].srt_sock}


\* the groups (by identity) that the step removed from the registry
Removed ==
  {conn_groups[i].uid : i \in DOMAIN conn_groups}
    \ {conn_groups'[i].uid : i \in DOMAIN conn_groups'}

\* the group of identity u, in the registry before the step
GroupOfUid(u) == conn_groups[CHOOSE i \in DOMAIN conn_groups : conn_groups[i].uid = u]

(***************************************************************************)
(* C16: a step removes a group from the registry only if                   *)
(*  (a) it handled a datagram of 16 bytes or more (no REG1, no REG2) from  *)
(*      a connection of the group and did not get it written to the        *)
(*      downstream socket (socket(), connect(), epoll_add() or send()      *)
(*      failed), or it read less than 16 bytes from the downstream socket  *)
(*      of the group; such a step removes that one group; or               *)
(*  (b) it is a cleanup pass that ran (CLEANUP_PERIOD after the last), at  *)
(*      a time ts for which every connection of the group has              *)
(*      last_rcvd + 1.5 CONN_TIMEOUT < ts, so that the pass leaves none,   *)
(*      and created_at + GROUP_TIMEOUT < ts.                               *)
(* No REG1, REG2, keepalive or short datagram removes a group, nor does a  *)
(* ping or the wait.                                                       *)
(***************************************************************************)
C16_Step ==
  \A u \in Removed :
    LET g == GroupOfUid(u)
    IN  \/ /\ UplinkStep /\ ev'.pkt.len >= 16
           /\ HasConn(g, ev'.src)
           /\ \A k \in DOMAIN out' : out'[k].sock # 0 => ~out'[k].ok
           /\ Removed = {u}
        \/ /\ ev'.kind = "srt" /\ ev'.uid = u /\ ev'.pkt.len < 16
           /\ Removed = {u}
        \/ /\ ev'.kind = "cleanup"
           /\ last_ran + CLEANUP_PERIOD <= ts /\ last_ran' = ts
           /\ \A j \in DOMAIN g.conns :
                2 * g.conns[j].last_rcvd + 3 * CONN_TIMEOUT < 2 * ts
           /\ ts - g.created_at > GROUP_TIMEOUT

C16_RemovedOnlyWhen == [][C16_Step]_vars

\* after a cleanup pass, a group that had a downstream socket when the
\* batch began is gone, and the group that remains, older than
\* GROUP_TIMEOUT, has a connection
C16_Witness ==
  /\ ev.kind = "cleanup" /\ last_ran = ts
  /\ \E u \in ready : \A i \in DOMAIN conn_groups : conn_groups[i].uid # u
  /\ Len(conn_groups) = 1
  /\ conn_groups[1].conns # <<>>
  /\ conn_groups[1].created_at + GROUP_TIMEOUT < ts


(***************************************************************************)
(* SpecJan: the janitor, second by second.  At the start a group registers *)
(* and a data packet of its first client opens the downstream socket; the  *)
(* two clients register their connections at any time, the first client    *)
(* sends keepalives, and both fall silent.  No call on a downstream socket *)
(* fails, so that a group leaves the registry only in a cleanup pass.  The *)
(* clock advances by one second at a time, for JanTime seconds: past the   *)
(* removal of a connection heard from in the first seconds, and of the     *)
(* group after it.                                                         *)
(***************************************************************************)
JanTime == 10

NextJan ==
  \/ TickTo(1, JanTime)
  \/ \E n \in 0..1 : EpollWait(n)
  \/ now = StartTime /\ RecvReg1(1, 1, 1, TRUE)
  \/ \E src \in 1..2 : RecvReg2(src, <<1, 1>>, TRUE)
  \/ RecvSmall(1, Keepalive, TRUE)
  \/ now = StartTime /\ RecvSrt(1, SrtData(258, SRT_MIN_LEN), TRUE, "ok", MaxData)
  \/ Cleanup
  \/ Ping

SpecJan == Init /\ [][NextJan]_vars


\* the step is a cleanup pass that ran: CLEANUP_PERIOD after the last one
CleanupRan == ev'.kind = "cleanup" /\ last_ran + CLEANUP_PERIOD <= ts

\* the pass erases connection conn: last_rcvd + 1.5 * CONN_TIMEOUT < ts
Expired(conn) == 2 * conn.last_rcvd + 3 * CONN_TIMEOUT < 2 * ts

\* the pass erases the connections of group g, which has some
LosesLastConn(g) ==
  g.conns # <<>> /\ \A j \in DOMAIN g.conns : Expired(g.conns[j])

\* C17 as the specification states it: the group whose last connection a
\* cleanup pass deletes is in the registry after the pass, with its socket
\* and its file
C17_Original ==
  [][CleanupRan =>
       \A i \in DOMAIN conn_groups :
         LosesLastConn(conn_groups[i]) =>
           \E k \in DOMAIN conn_groups' :
             /\ conn_groups'[k].uid = conn_groups[i].uid
             /\ conn_groups'[k].srt_sock = conn_groups[i].srt_sock
             /\ conn_groups[i].srt_sock > 0 => conn_groups[i].srt_sock \in DOMAIN files']_vars

(***************************************************************************)
(* C17: the cleanup pass that deletes the last remaining connection of a   *)
(* group removes the group in the same pass, and its socket info file with *)
(* it: a connection is deleted when last_rcvd + 1.5 CONN_TIMEOUT < ts, and *)
(* by then created_at + GROUP_TIMEOUT < ts holds, as the group is older    *)
(* than what its connections received.  A group that keeps a connection    *)
(* stays.  A group that has no connection yet stays while                  *)
(* ts <= created_at + GROUP_TIMEOUT and is removed by the first pass that  *)
(* runs after that.                                                        *)
(***************************************************************************)
C17_Step ==
  CleanupRan =>
    \A i \in DOMAIN conn_groups :
      LET g == conn_groups[i]
      IN  /\ \A j \in DOMAIN g.conns : g.created_at <= g.conns[j].last_rcvd
          /\ LosesLastConn(g) =>
               /\ g.uid \in Removed
               /\ g.srt_sock > 0 => g.srt_sock \notin DOMAIN files'
          /\ (\E j \in DOMAIN g.conns : ~Expired(g.conns[j])) => g.uid \notin Removed
          /\ g.conns = <<>> => (g.uid \in Removed <=> g.created_at + GROUP_TIMEOUT < ts)

C17_RemovedWithLastConn == [][C17_Step]_vars

\* a cleanup pass has just run, not 8 seconds after the start, and the
\* group that had a downstream socket when the batch began is gone, with
\* its file
C17_Witness ==
  /\ ev.kind = "cleanup" /\ last_ran = ts /\ ts < StartTime + 8
  /\ ready # {}
  /\ conn_groups = <<>> /\ files = <<>>


(***************************************************************************)
(* SpecFault: faults.  Two groups register, the first from addresses 1 and *)
(* 2 and the second from address 3.  Every sendto() to a client may fail:  *)
(* the echo of a keepalive, the SRTLA ACK that the tenth data packet of a  *)
(* connection brings, the copies of an SRT ACK and a forwarded SRT data    *)
(* packet.  Every call on a downstream socket may fail: socket(),          *)
(* connect(), epoll_add(), send() and recv().  The clock stands still.     *)
(***************************************************************************)
FaultData == 10
FaultBatch == 1
FaultSel == 2

NextFault ==
  \/ \E n \in 1..FaultBatch : EpollWait(n)
  \/ \E second \in BOOLEAN :
       RecvReg1(IF second THEN 3 ELSE 1, 1, IF second THEN 2 ELSE 1, TRUE)
  \/ \E src \in Addrs : RecvReg2(src, <<1, IF src = 3 THEN 2 ELSE 1>>, TRUE)
  \/ \E src \in Addrs, ok \in BOOLEAN : RecvSmall(src, Keepalive, ok)
  \/ \E src \in Addrs, ok \in BOOLEAN, srt_io \in SrtIo :
       RecvSrt(src, SrtData(NextSn(src), SRT_MIN_LEN), ok, srt_io,
               IF src = 1 THEN FaultData ELSE MaxData)
  \/ \E i \in 1..MAX_GROUPS, kind \in 1..3, fail \in Fails :
       /\ kind = 3 => round_robin_counter < FaultSel
       /\ HandleSrt(i, CASE kind = 1 -> NoPkt
                         [] kind = 2 -> SrtControl(SRT_TYPE_ACK)
                         [] kind = 3 -> SrtData(7, SRT_MIN_LEN),
                    [j \in 1..MAX_CONNS_PER_GROUP |-> j], fail)
  \/ Cleanup
  \/ Ping

SpecFault == Init /\ [][NextFault]_vars


\* the step met a fault of the downstream socket of a group: it handled a
\* datagram to forward and got no write through (socket(), connect(),
\* epoll_add() or send() failed), or it read less than 16 bytes from it
ForwardFault ==
  /\ UplinkStep /\ ev'.pkt.len >= 16
  /\ \A k \in DOMAIN out' : out'[k].sock # 0 => ~out'[k].ok
ReadFault == ev'.kind = "srt" /\ DownGroup # 0 /\ ev'.pkt.len < 16

\* the group the fault is of, by its place in the registry
FaultGroup == IF ReadFault THEN DownGroup ELSE ConnOfSrc(ev'.src)[1]

\* a sendto() of the step to a client failed
UplinkFault == \E k \in DOMAIN out' : out'[k].sock = 0 /\ ~out'[k].ok

(***************************************************************************)
(* C18: a step that meets a fault of the downstream socket of group g      *)
(* (socket(), connect(), epoll_add() or send() fails, or recv() returns    *)
(* less than 16 bytes) removes g, and its file, from the registry; every   *)
(* other group stays in its place with its connections, its socket and its *)
(* file as they were, and the loop goes on with the janitor.  A step in    *)
(* which a sendto() to a client fails, and no downstream fault occurs,     *)
(* removes no group and no connection.                                     *)
(***************************************************************************)
C18_Step ==
  /\ (ForwardFault \/ ReadFault) =>
       LET gi == FaultGroup
           g == conn_groups[gi]
       IN  /\ Len(conn_groups') = Len(conn_groups) - 1
           /\ \A i \in DOMAIN conn_groups' :
                conn_groups'[i] = conn_groups[IF i < gi THEN i ELSE i + 1]
           /\ DOMAIN files' = DOMAIN files \ {g.srt_sock}
           /\ \A port \in DOMAIN files' : files'[port] = files[port]
           /\ pc' = "cleanup"
  /\ (ev'.kind \in {"srtla", "srt"} /\ UplinkFault /\ ~ForwardFault /\ ~ReadFault) =>
       /\ Removed = {}
       /\ \A i \in DOMAIN conn_groups :
            /\ conn_groups'[i].uid = conn_groups[i].uid
            /\ Len(conn_groups'[i].conns) >= Len(conn_groups[i].conns)
            /\ \A j \in DOMAIN conn_groups[i].conns :
                 conn_groups'[i].conns[j].addr = conn_groups[i].conns[j].addr
       /\ files' = files

C18_FaultsContained == [][C18_Step]_vars

\* of two groups that had a downstream socket when the batch began, the
\* one whose send() has just failed is gone and the other is there with its
\* connection, its socket and its file
C18_Witness ==
  /\ ev.kind = "srtla" /\ ev.pkt.len >= 16
  /\ \E k \in DOMAIN out : out[k].sock > 0 /\ ~out[k].ok
  /\ Cardinality(ready) = 2
  /\ Len(conn_groups) = 1 /\ conn_groups[1].uid \in ready
  /\ conn_groups[1].conns # <<>>
  /\ conn_groups[1].srt_sock > 0
  /\ DOMAIN files = {conn_groups[1].srt_sock}
  /\ pc = "cleanup"


(***************************************************************************)
(* SpecBatch: the readiness batch.  Two groups register, one from address  *)
(* 1 and one from address 3, and open their downstream sockets; a batch    *)
(* has up to BatchLen events, among them a send() or a recv() on a         *)
(* downstream socket that fails.  Between two batches the clock may        *)
(* advance by 7 seconds, which lets the janitor remove a silent group.     *)
(***************************************************************************)
BatchLen == 3

NextBatch ==
  \/ \E d \in Jumps : Tick(d)
  \/ \E n \in 1..BatchLen : EpollWait(n)
  \/ \E second \in BOOLEAN :
       RecvReg1(IF second THEN 3 ELSE 1, 1, IF second THEN 2 ELSE 1, TRUE)
  \/ \E second \in BOOLEAN :
       RecvReg2(IF second THEN 3 ELSE 1, <<1, IF second THEN 2 ELSE 1>>, TRUE)
  \/ \E second \in BOOLEAN : RecvSmall(IF second THEN 3 ELSE 1, Keepalive, TRUE)
  \/ \E second \in BOOLEAN, srt_io \in {"ok", "send"} :
       RecvSrt(IF second THEN 3 ELSE 1, SrtData(258, SRT_MIN_LEN), TRUE, srt_io, MaxData)
  \/ \E i \in 1..MAX_GROUPS, failed \in BOOLEAN :
       HandleSrt(i, IF failed THEN NoPkt ELSE SrtControl(SRT_TYPE_ACK),
                 [j \in 1..MAX_CONNS_PER_GROUP |-> j], {})
  \/ Cleanup
  \/ Ping

SpecBatch == Init /\ [][NextBatch]_vars

\* the groups (by identity) in the registry
Live == {conn_groups[i].uid : i \in DOMAIN conn_groups}

(***************************************************************************)
(* C19: a handler that removes a group ends the batch: the events of the   *)
(* batch that are left are not dispatched, and the loop goes on with the   *)
(* janitor and the next epoll_wait().  The janitor removes groups only     *)
(* after the batch.  So, whenever an event may still be dispatched, every  *)
(* group whose socket epoll_wait() watched when it returned the batch is   *)
(* in the registry: no event is dispatched for a group that is destroyed.  *)
(***************************************************************************)
C19_PendingAreLive == pc = "events" => (left >= 1 /\ ready \subseteq Live)

C19_Step ==
  /\ ev'.kind \in {"srtla", "srt"} =>
       /\ pc = "events" /\ left >= 1 /\ ready \subseteq Live
       /\ left' = left - 1
       /\ Removed # {} => pc' = "cleanup"
       /\ Removed = {} => pc' = (IF left = 1 THEN "cleanup" ELSE "events")
  /\ (ev'.kind \in {"cleanup", "ping"} /\ Removed # {}) => pc = "cleanup" /\ pc' = "ping"
  /\ ev'.kind = "wait" => Removed = {} /\ ready' \subseteq Live

C19_BatchAborted == [](C19_PendingAreLive) /\ [][C19_Step]_vars

\* the first event of a batch of BatchLen events was a read on a downstream
\* socket that failed: the group is gone, the other events of the batch
\* were not dispatched, and the janitor is next
C19_Witness ==
  /\ ev.kind = "srt" /\ ev.pkt.len < 16
  /\ pc = "cleanup" /\ left = BatchLen - 1
  /\ ev.uid \in ready /\ ev.uid \notin Live
  /\ Cardinality(ready) = 2 /\ Len(conn_groups) = 1


(***************************************************************************)
(* SpecSilent: the silent uplink.  At the start one group registers with   *)
(* two connections and a data packet of client 1 opens its downstream      *)
(* socket.  From then on nothing arrives from client 2; client 1 sends     *)
(* keepalives and the downstream server sends up to SilentSel SRT data     *)
(* packets.  The process runs every 2 seconds for SilentRun seconds; after *)
(* 4 seconds it may instead be kept from running for 31 seconds.           *)
(***************************************************************************)
SilentTime == 36
SilentRun == 8
SilentBatch == 2
SilentSel == 3

\* the seconds to the next batch
SilentJumps ==
  (IF now < StartTime + SilentRun THEN {2} ELSE {}) \cup
  (IF now = StartTime + 4 THEN {31} ELSE {})

NextSilent ==
  \/ \E d \in SilentJumps : TickTo(d, SilentTime)
  \/ \E n \in 1..SilentBatch : EpollWait(n)
  \/ now = StartTime /\ RecvReg1(1, 1, 1, TRUE)
  \/ /\ now = StartTime
     /\ \E src \in 1..2 :
          /\ \E i \in DOMAIN conn_groups : Len(conn_groups[i].conns) >= src - 1
          /\ RecvReg2(src, <<1, 1>>, TRUE)
  \/ now = StartTime /\ RecvSrt(1, SrtData(258, SRT_MIN_LEN), TRUE, "ok", MaxData)
  \/ RecvSmall(1, Keepalive, TRUE)
  \/ /\ round_robin_counter < SilentSel
     /\ HandleSrt(1, SrtData(7, SRT_MIN_LEN), [j \in 1..MAX_CONNS_PER_GROUP |-> j], {})
  \/ Cleanup
  \/ Ping

SpecSilent == Init /\ [][NextSilent]_vars

\* the connections of client 2, from which nothing is received after REG2
SilentConns ==
  {conn_groups[i].conns[j] : <<i, j>> \in
     {p \in (DOMAIN conn_groups) \X (1..MAX_CONNS_PER_GROUP) :
        /\ p[2] \in DOMAIN conn_groups[p[1]].conns
        /\ conn_groups[p[1]].conns[p[2]].addr = 2}}

\* C20 as the specification states it: a registered uplink that has been
\* silent for CONN_TIMEOUT/2 + 6 seconds has a failure counted, and three
\* after three such windows
C20_Original ==
  \A conn \in SilentConns :
    /\ ts - conn.last_rcvd >= 8 => conn.successive_failures >= 1
    /\ ts - conn.last_rcvd >= 24 => conn.successive_failures >= 3

\* a data packet of the downstream socket went to client 2
SentToSilent ==
  /\ ev'.kind = "srt" /\ ev'.pkt.len >= 16
  /\ \E k \in DOMAIN out' : out'[k].sock = 0 /\ out'[k].to = 2

\* client 1 is in the active set of the call
OtherIsActive ==
  \E i \in DOMAIN conn_groups : \E j \in DOMAIN conn_groups[i].conns :
    /\ conn_groups[i].conns[j].addr = 1
    /\ conn_groups[i].conns[j].last_rcvd + 4 >= ts
    /\ j \in DOMAIN conn_groups'[i].conns
    /\ conn_groups'[i].conns[j].successive_failures < 3

(***************************************************************************)
(* C20: an uplink from which nothing is received.  Its health is updated   *)
(* only by the maintenance of the selector, which runs at most once in 30  *)
(* seconds, and the janitor erases it when it has been silent for more     *)
(* than 1.5 * CONN_TIMEOUT seconds.  So its successive_failures never      *)
(* reaches 3: it is 0, or 1 in the iteration whose janitor pass erases the *)
(* uplink.  The uplink leaves the active set when it has been silent for   *)
(* more than CONN_TIMEOUT seconds: from then on the selector does not      *)
(* return it while the other uplink is active.                             *)
(***************************************************************************)
C20_SilentState ==
  \A conn \in SilentConns :
    /\ conn.successive_failures <= 1
    /\ conn.successive_failures = 1 =>
         (conn.last_rcvd + 6 < ts /\ pc \in {"events", "cleanup"})
    /\ (pc = "ping" /\ last_ran = ts) => conn.last_rcvd + 6 >= ts

C20_Step ==
  /\ (SentToSilent /\ OtherIsActive) =>
       \A conn \in SilentConns : conn.last_rcvd + 4 >= ts
  /\ \A conn \in SilentConns :
       (\E c2 \in SilentConns' : c2.successive_failures # conn.successive_failures) =>
         (ev'.kind = "srt" /\ now - g_last_decay_time > 30)

C20_SilentUplink == [](C20_SilentState) /\ [][C20_Step]_vars

\* the selector has counted a failure of the uplink, which has been silent
\* for more than 8 seconds and is still registered
C20_Witness ==
  /\ ev.kind = "srt" /\ pc = "cleanup"
  /\ \E conn \in SilentConns :
       /\ ts - conn.last_rcvd >= 8
       /\ conn.successive_failures = 1
       /\ conn.health_status = ts


(***************************************************************************)
(* Recovery, in SpecSel.  A connection is probed when the janitor has      *)
(* counted a recovery attempt for it that no call of the selector has      *)
(* cleared yet.  Kept is the group of the call after the maintenance of    *)
(* the call.                                                               *)
(***************************************************************************)
Kept == update_connection_capacity(World, SelGroup, now).groups[SelGroup].conns

\* C21 as the specification states it: a probed connection heard from
\* within CONN_TIMEOUT seconds is in the active set of every call
C21_Original ==
  [][SelectStep =>
       \A j \in DOMAIN conn_groups[SelGroup].conns :
         (/\ conn_groups[SelGroup].conns[j].recovery_attempts = 1
          /\ conn_groups[SelGroup].conns[j].last_rcvd + 4 >= now)
           => Active(Kept[j])]_vars

(***************************************************************************)
(* C21: a datagram (no REG1, no REG2) from the address of a connection the *)
(* janitor has probed stamps last_rcvd and changes neither its             *)
(* recovery_attempts nor its health.  In a call of the selector made       *)
(* within CONN_TIMEOUT seconds of that datagram the connection is in the   *)
(* active set when its successive_failures is below 3 after the            *)
(* maintenance of the call: the call then returns an active connection,    *)
(* and returns this one, with recovery_attempts cleared, when no other is  *)
(* active.  When its successive_failures is 3 or more it is not in the     *)
(* active set, and the call returns another connection if one is active.   *)
(***************************************************************************)
C21_Step ==
  /\ UplinkStep =>
       LET p == ConnOfSrc(ev'.src)
           c == conn_groups[p[1]].conns[p[2]]
       IN  c.recovery_attempts >= 1 =>
             \A i \in DOMAIN conn_groups' :
               conn_groups'[i].uid = conn_groups[p[1]].uid =>
                 /\ conn_groups'[i].conns[p[2]].last_rcvd = now
                 /\ conn_groups'[i].conns[p[2]].recovery_attempts = c.recovery_attempts
                 /\ conn_groups'[i].conns[p[2]].successive_failures = c.successive_failures
                 /\ conn_groups'[i].conns[p[2]].health_status = c.health_status
  /\ SelectStep =>
       \A j \in DOMAIN conn_groups[SelGroup].conns :
         (/\ conn_groups[SelGroup].conns[j].recovery_attempts >= 1
          /\ conn_groups[SelGroup].conns[j].last_rcvd + 4 >= now)
           => /\ Len(out') = 1
              /\ Kept[j].successive_failures < 3 =>
                   /\ \E k \in DOMAIN Kept : Kept[k].addr = out'[1].to /\ Active(Kept[k])
                   /\ (\A k \in DOMAIN Kept : k # j => ~Active(Kept[k])) =>
                        /\ out'[1].to = Kept[j].addr
                        /\ conn_groups'[SelGroup].conns[j].recovery_attempts = 0
              /\ (/\ Kept[j].successive_failures >= 3
                  /\ \E k \in DOMAIN Kept : Active(Kept[k]))
                   => out'[1].to # Kept[j].addr

C21_ProbedAndHeard == [][C21_Step]_vars

\* the selector has just run for a group with a connection that was probed
\* once and heard from in this batch: the connection is active, and the
\* call has returned the other connection
C21_Witness ==
  /\ ev.kind = "srt" /\ ev.pkt.len >= 16 /\ Len(out) = 1
  /\ Len(conn_groups) = 1
  /\ \E j \in DOMAIN conn_groups[1].conns :
       /\ conn_groups[1].conns[j].recovery_attempts = 1
       /\ conn_groups[1].conns[j].last_rcvd = now
       /\ last_ran < now
       /\ Active(conn_groups[1].conns[j])
       /\ out[1].to # conn_groups[1].conns[j].addr


(***************************************************************************)
(* The janitor and the connections, in SpecJan.  A connection is named by  *)
(* its address: no two connections of the registry have the same.          *)
(*                                                                         *)
(* SpecJanFair: a process that keeps running and a clock that keeps        *)
(* advancing, for LiveTime seconds.  At the start one group registers with *)
(* two connections, client 1 before client 2; from then on client 2 sends  *)
(* keepalives and nothing arrives from client 1.                           *)
(***************************************************************************)
LiveTime == 10

NextLive ==
  \/ TickTo(1, LiveTime)
  \/ \E n \in 0..1 : EpollWait(n)
  \/ now = StartTime /\ RecvReg1(1, 1, 1, TRUE)
  \/ /\ now = StartTime
     /\ \E src \in 1..2 :
          /\ \E i \in DOMAIN conn_groups : Len(conn_groups[i].conns) >= src - 1
          /\ RecvReg2(src, <<1, 1>>, TRUE)
  \/ RecvSmall(2, Keepalive, TRUE)
  \/ Cleanup
  \/ Ping

SpecJanFair ==
  Init /\ [][NextLive]_vars /\ WF_vars(NextLive) /\ SF_vars(TickTo(1, LiveTime))

\* the connections of the registry, as <<group, address, last_rcvd>>
Conns ==
  {<<conn_groups[p[1]].uid, conn_groups[p[1]].conns[p[2]].addr,
     conn_groups[p[1]].conns[p[2]].last_rcvd>> :
     p \in {q \in (DOMAIN conn_groups) \X (1..MAX_CONNS_PER_GROUP) :
              q[2] \in DOMAIN conn_groups[q[1]].conns}}

\* the connection of address a last received a packet at time t
HeardAt(a, t) == \E c \in Conns : c[2] = a /\ c[3] = t

\* the last time at which a connection can fall silent and still meet a
\* cleanup pass that runs after its removal threshold
LastSilence == StartTime + LiveTime - ((3 * CONN_TIMEOUT) \div 2 + CLEANUP_PERIOD)

(***************************************************************************)
(* C22: a cleanup pass that runs removes a connection if and only if       *)
(* last_rcvd + 1.5 * CONN_TIMEOUT < ts, where ts is the time the loop read *)
(* before the batch.  A connection heard from in the last 1.5 *            *)
(* CONN_TIMEOUT seconds stays, with the fields it had but its              *)
(* recovery_attempts, also when it is not active any more; a pass that     *)
(* does not run (CLEANUP_PERIOD) and the ping change no connection.  A     *)
(* connection that receives nothing more is removed in the end.            *)
(***************************************************************************)
C22_Step ==
  /\ CleanupRan =>
       \A c \in Conns :
         IF c[3] + 6 < ts THEN \A d \in Conns' : d[2] # c[2]
         ELSE c \in Conns'
  /\ (ev'.kind \in {"cleanup", "ping"} /\ ~CleanupRan) => conn_groups' = conn_groups

C22_Live == (HeardAt(1, StartTime) /\ StartTime <= LastSilence) ~> ~HeardAt(1, StartTime)

ConnsOf(groups) ==
  {groups[p[1]].conns[p[2]] :
     p \in {q \in (DOMAIN groups) \X (1..MAX_CONNS_PER_GROUP) :
              q[2] \in DOMAIN groups[q[1]].conns}}

\* the keepalives of the step that went to address a
KeepalivesTo(a) ==
  {k \in DOMAIN out' : /\ out'[k].sock = 0 /\ out'[k].to = a
                       /\ out'[k].data.len = 2 /\ out'[k].data.b = <<144, 0, 0, 0>>}

(***************************************************************************)
(* C23: a cleanup pass that runs sends three keepalives to every           *)
(* connection it keeps that has last_rcvd + CONN_TIMEOUT / 4 < ts and      *)
(* recovery_attempts < 5, and adds one to its recovery_attempts; to any    *)
(* other connection it sends nothing, and it leaves the recovery_attempts  *)
(* of the other connections it keeps as they were.  It sends nothing else. *)
(* In every state recovery_attempts is between 0 and 5.                    *)
(***************************************************************************)
C23_Range ==
  \A c \in ConnsOf(conn_groups) : c.recovery_attempts >= 0 /\ c.recovery_attempts <= 5

C23_Step ==
  /\ CleanupRan =>
       /\ \A c \in ConnsOf(conn_groups) :
            IF c.last_rcvd + 6 < ts
            THEN /\ KeepalivesTo(c.addr) = {}
                 /\ \A d \in ConnsOf(conn_groups') : d.addr # c.addr
            ELSE IF c.last_rcvd + 1 < ts /\ c.recovery_attempts < 5
            THEN /\ Cardinality(KeepalivesTo(c.addr)) = 3
                 /\ \E d \in ConnsOf(conn_groups') :
                      d = [c EXCEPT !.recovery_attempts = c.recovery_attempts + 1]
            ELSE /\ KeepalivesTo(c.addr) = {}
                 /\ c \in ConnsOf(conn_groups')
       /\ \A k \in DOMAIN out' :
            \E c \in ConnsOf(conn_groups) : k \in KeepalivesTo(c.addr)
  /\ (ev'.kind = "cleanup" /\ ~CleanupRan) => (out' = <<>> /\ conn_groups' = conn_groups)

C23_Probe == [](C23_Range) /\ [][C23_Step]_vars

\* a cleanup pass has just probed a connection for the fifth time
C23_Witness ==
  /\ ev.kind = "cleanup" /\ last_ran = ts
  /\ \E c \in ConnsOf(conn_groups) :
       /\ c.recovery_attempts = 5
       /\ Len(out) >= 3
       /\ \E k \in DOMAIN out : out[k].to = c.addr /\ out[k].data.len = 2


(***************************************************************************)
(* SpecPick: one call of the selector.  The process is about to handle an  *)
(* SRT data packet of the downstream socket of its one group.  The group   *)
(* has 1..PickConns connections (MAX_CONNS_PER_GROUP is 16 in the          *)
(* program), each in one of the conditions of PickProfiles; the clock is   *)
(* at one of PickTimes, the last maintenance was one of PickAges seconds   *)
(* ago and round_robin_counter is in 0..PickRr.                            *)
(***************************************************************************)
PickConns == 4
PickFew == 2
PickRr == 2
PickProfiles == 9
PickTimes == {StartTime + 32, StartTime + 35}
PickAges == {15, 30, 31}

\* connection j of the group at time t, in condition k:
\*   1  heard from now, idle               5  heard from, 3 failures counted
\*   2  heard from now, at its capacity    6  timed out, probed twice
\*   3  probed once, then heard from       7  timed out, probed 5 times
\*   4  heard from now, half used          8  timed out, not probed
\*   9  successive_failures clamped from 3 to 2 at the last multiple of 30 s
\*      or counted up to 2 by the last maintenance, then heard from
PickConn(j, k, t) ==
  LET c == srtla_conn(j, StartTime)
  IN  CASE k = 1 -> [c EXCEPT !.last_rcvd = t]
        [] k = 2 -> [c EXCEPT !.last_rcvd = t, !.bytes_sent = 32,
                              !.bytes_this_period = 16, !.max_bytes_per_period = 16,
                              !.last_capacity_update = t - 62]
        [] k = 3 -> [c EXCEPT !.last_rcvd = t - 3, !.recovery_attempts = 1,
                              !.bytes_sent = 16, !.bytes_this_period = 16,
                              !.max_bytes_per_period = 64]
        [] k = 4 -> [c EXCEPT !.last_rcvd = t, !.bytes_sent = 48,
                              !.bytes_this_period = 32, !.max_bytes_per_period = 64]
        [] k = 5 -> [c EXCEPT !.last_rcvd = t - 1, !.successive_failures = 3,
                              !.health_status = t - 32, !.bytes_sent = 16,
                              !.max_bytes_per_period = 16]
        [] k = 6 -> [c EXCEPT !.last_rcvd = t - 5, !.recovery_attempts = 2]
        [] k = 7 -> [c EXCEPT !.last_rcvd = t - 6, !.recovery_attempts = 5,
                              !.bytes_sent = 17, !.max_bytes_per_period = 16,
                              !.last_capacity_update = t - 62]
        [] k = 8 -> [c EXCEPT !.last_rcvd = t - 5]
        [] OTHER -> [c EXCEPT !.last_rcvd = t - 3, !.successive_failures = 2,
                              !.health_status = t - 31, !.bytes_sent = 16,
                              !.max_bytes_per_period = 16]

PickGroup(n, f, t) ==
  [srtla_conn_group(1, StartTime, 1, 1)
     EXCEPT !.conns = [j \in 1..n |-> PickConn(j, f[j], t)],
            !.srt_sock = FirstFd, !.last_addr = 1]

PickInit(maxConns) ==
  \E t \in PickTimes, n \in 1..maxConns :
    \E f \in [1..n -> 1..PickProfiles], age \in PickAges, rr \in 0..PickRr :
      /\ conn_groups = <<PickGroup(n, f, t)>>
      /\ files = write_socket_info_file(<<>>, PickGroup(n, f, t))
      /\ next_uid = 2
      /\ g_last_decay_time = t - age
      /\ round_robin_counter = rr
      /\ last_ran = t - 2
      /\ last_ping = t - 2
      /\ now = t
      /\ ts = t
      /\ pc = "events"
      /\ left = 1
      /\ ready = {1}
      /\ out = <<>>
      /\ ev = Ev("wait", NoAddr, NoPkt, 0)

InitPick == PickInit(PickConns)

\* std::sort leaves equal utilizations in the order of the connections, or
\* in the reverse order
NextPick ==
  \E reversed \in BOOLEAN :
    HandleSrt(1, SrtData(7, SRT_MIN_LEN),
              [j \in 1..PickConns |-> IF reversed THEN PickConns + 1 - j ELSE j], {})

SpecPick == InitPick /\ [][NextPick]_vars

\* SpecPickFew: the same call on a group of 1..PickFew connections
InitPickFew == PickInit(PickFew)

SpecPickFew == InitPickFew /\ [][NextPick]_vars


(***************************************************************************)
(* What a call of the selector did, in SpecPick.  Kept is the group after  *)
(* the maintenance of the call; the connection the call returned is the    *)
(* one the datagram was counted on.                                        *)
(***************************************************************************)
ActiveSet == {j \in DOMAIN Kept : Active(Kept[j])}

RecoverySet ==
  {j \in DOMAIN Kept : Kept[j].recovery_attempts > 0 /\ Kept[j].recovery_attempts < 5}

Returned ==
  {j \in DOMAIN Kept :
     /\ j \in DOMAIN conn_groups'[SelGroup].conns
     /\ conn_groups'[SelGroup].conns[j].bytes_this_period
          = Kept[j].bytes_this_period + ev'.pkt.len
     /\ Len(out') = 1 /\ out'[1].sock = 0 /\ out'[1].to = Kept[j].addr}

(***************************************************************************)
(* C24: a call of the selector on a group with connections returns one     *)
(* connection.  It is in the active set if one is; else it is in the       *)
(* recovery set (0 < recovery_attempts < 5) if one is; else it is the      *)
(* connection with the largest last_rcvd, the first of them in the group.  *)
(***************************************************************************)
C24_Step ==
  SelectStep =>
    /\ Cardinality(Returned) = 1
    /\ \A j \in Returned :
         IF ActiveSet # {} THEN j \in ActiveSet
         ELSE IF RecoverySet # {} THEN j \in RecoverySet
         ELSE \A k \in DOMAIN Kept :
                \/ Kept[k].last_rcvd < Kept[j].last_rcvd
                \/ (Kept[k].last_rcvd = Kept[j].last_rcvd /\ j <= k)

C24_CandidatePool == [][C24_Step]_vars

\* the fallback has just returned the second connection of a group in
\* which no connection is active or in recovery
C24_Witness ==
  /\ ev.kind = "srt" /\ Len(out) = 1 /\ Len(conn_groups) = 1
  /\ Len(conn_groups[1].conns) >= 2
  /\ \A j \in DOMAIN conn_groups[1].conns :
       /\ conn_groups[1].conns[j].last_rcvd + 4 < now
       /\ conn_groups[1].conns[j].recovery_attempts \in {0, 5}
  /\ out[1].to = conn_groups[1].conns[2].addr
  /\ conn_groups[1].conns[2].bytes_this_period = 16
  /\ conn_groups[1].conns[1].last_rcvd < conn_groups[1].conns[2].last_rcvd


\* the candidates of the call
Pool == IF ActiveSet # {} THEN ActiveSet ELSE RecoverySet

\* 300 * time_factor, with time_factor = clamp(now - last_decay, 0.3, 30) / 30
\* and last_decay as the maintenance of the call leaves it
TimeFactor300 ==
  LET d == now - g_last_decay_time'
  IN  IF 10 * d < 3 THEN 3 ELSE IF d > 30 THEN 300 ELSE 10 * d

\* the utilization of connection c as a fraction:
\* (bytes_this_period / time_factor) / max_bytes_per_period, at most 2
UtilOf(c) ==
  IF c.max_bytes_per_period = 0 THEN <<0, 1>>
  ELSE LET num == c.bytes_this_period * 300
           den == TimeFactor300 * c.max_bytes_per_period
       IN  IF num > 2 * den THEN <<2, 1>> ELSE <<num, den>>

UtilLess(x, y) == x[1] * y[2] < y[1] * x[2]

\* a candidate is above 70 % of its capacity
Pressure == \E j \in Pool : UtilLess(<<7, 10>>, UtilOf(Kept[j]))

(***************************************************************************)
(* C25: when a candidate has a utilization above 0.7, the call returns the *)
(* candidate at index round_robin_counter mod max(1, n div 2) of the n     *)
(* candidates sorted by utilization, ascending, round_robin_counter being  *)
(* the counter after the increment of the call: as many candidates as the  *)
(* index are less utilized than the one returned or as much, and no more   *)
(* are less utilized.  Of two candidates of different utilization it is    *)
(* the less utilized one.                                                  *)
(***************************************************************************)
C25_Step ==
  (SelectStep /\ Pool # {} /\ Pressure) =>
    LET n == Cardinality(Pool)
        half == IF n \div 2 = 0 THEN 1 ELSE n \div 2
        index == round_robin_counter' % half
    IN  /\ Cardinality(Returned) = 1
        /\ \A r \in Returned :
             /\ r \in Pool
             /\ Cardinality({k \in Pool : UtilLess(UtilOf(Kept[k]), UtilOf(Kept[r]))})
                  <= index
             /\ Cardinality({k \in Pool : ~UtilLess(UtilOf(Kept[r]), UtilOf(Kept[k]))})
                  >= index + 1
             /\ n = 2 => \A k \in Pool : ~UtilLess(UtilOf(Kept[k]), UtilOf(Kept[r]))

C25_UnderPressure == [][C25_Step]_vars

\* four active connections with utilizations 1, 0, 1/4 and 1/2, and a
\* counter that is odd after the call: the call has returned the third
\* connection, the second of the less utilized half
C25_Witness ==
  /\ ev.kind = "srt" /\ Len(out) = 1 /\ Len(conn_groups) = 1
  /\ Len(conn_groups[1].conns) = 4
  /\ now - g_last_decay_time = 30
  /\ round_robin_counter % 2 = 1
  /\ \A j \in 1..4 : conn_groups[1].conns[j].last_rcvd + 4 >= now
  /\ conn_groups[1].conns[1].bytes_this_period = 16
  /\ conn_groups[1].conns[1].max_bytes_per_period = 16
  /\ conn_groups[1].conns[2].max_bytes_per_period = 0
  /\ conn_groups[1].conns[3].bytes_this_period = 32
  /\ conn_groups[1].conns[3].max_bytes_per_period = 64
  /\ conn_groups[1].conns[4].bytes_this_period = 32
  /\ conn_groups[1].conns[4].max_bytes_per_period = 64
  /\ out[1].to = conn_groups[1].conns[3].addr


\* C26 as the specification states it: every call of the selector adds one
\* to round_robin_counter
C26_Original == [][SelectStep => round_robin_counter' = round_robin_counter + 1]_vars

(***************************************************************************)
(* C26: round_robin_counter is one counter of the process.  A call of the  *)
(* selector that has candidates (the active set or, if it is empty, the    *)
(* recovery set) adds one to it before it chooses; a call that falls back  *)
(* to the most recently heard connection leaves it, and so does every      *)
(* other step.  When no candidate has a utilization above 0.7, the call    *)
(* returns, with the counter as incremented, the first candidate with the  *)
(* smallest bytes_sent if the counter mod 3 is 0, and else candidate       *)
(* number (counter mod n) of the n candidates in the order of the group,   *)
(* counted from 0.                                                         *)
(***************************************************************************)
C26_Step ==
  /\ round_robin_counter' =
       (IF SelectStep /\ Pool # {} THEN round_robin_counter + 1 ELSE round_robin_counter)
  /\ (SelectStep /\ Pool # {} /\ ~Pressure) =>
       /\ Cardinality(Returned) = 1
       /\ \A r \in Returned :
            /\ r \in Pool
            /\ IF round_robin_counter' % 3 = 0
               THEN \A k \in Pool :
                      \/ Kept[r].bytes_sent < Kept[k].bytes_sent
                      \/ (Kept[r].bytes_sent = Kept[k].bytes_sent /\ r <= k)
               ELSE Cardinality({k \in Pool : k < r})
                      = round_robin_counter' % Cardinality(Pool)

C26_NoPressure == [][C26_Step]_vars

\* two idle active connections, the second of which has sent a packet, and
\* a counter of 1 after the call: the call has returned the second, which
\* is not the one with the smallest bytes_sent
C26_Witness ==
  /\ ev.kind = "srt" /\ Len(out) = 1 /\ Len(conn_groups) = 1
  /\ Len(conn_groups[1].conns) = 2
  /\ round_robin_counter = 1
  /\ \A j \in 1..2 :
       /\ conn_groups[1].conns[j].last_rcvd = now
       /\ conn_groups[1].conns[j].max_bytes_per_period = 0
       /\ conn_groups[1].conns[j].bytes_sent = (IF j = 2 THEN 16 ELSE 0)
  /\ out[1].to = conn_groups[1].conns[2].addr


\* C27 as the specification states it: whatever connection a call of the
\* selector returns has recovery_attempts 0 after the call
C27_Original ==
  [][SelectStep =>
       \A r \in Returned : conn_groups'[SelGroup].conns[r].recovery_attempts = 0]_vars

(***************************************************************************)
(* C27: a call of the selector that has candidates (the active set or,     *)
(* if it is empty, the recovery set) leaves the connection it returns      *)
(* with recovery_attempts 0.  A call that has none returns the most        *)
(* recently heard connection with its recovery_attempts as it was, which   *)
(* is 0 or at least 5.  No call changes the recovery_attempts of a         *)
(* connection it does not return.                                          *)
(***************************************************************************)
C27_Step ==
  SelectStep =>
    /\ Len(conn_groups'[SelGroup].conns) = Len(Kept)
    /\ Cardinality(Returned) = 1
    /\ \A j \in DOMAIN Kept :
         conn_groups'[SelGroup].conns[j].recovery_attempts =
           (IF j \in Returned /\ Pool # {} THEN 0 ELSE Kept[j].recovery_attempts)
    /\ \A j \in DOMAIN Kept :
         Kept[j].recovery_attempts = conn_groups[SelGroup].conns[j].recovery_attempts
    /\ Pool = {} => \A r \in Returned : Kept[r].recovery_attempts \notin 1..4

C27_RecoveryCleared == [][C27_Step]_vars

\* the connection probed once and heard 3 s ago has been returned and has
\* recovery_attempts 0, next to one probed twice that keeps its 2
C27_Witness ==
  /\ ev.kind = "srt" /\ Len(out) = 1 /\ Len(conn_groups) = 1
  /\ \E j, k \in DOMAIN conn_groups[1].conns :
       /\ conn_groups[1].conns[j].last_rcvd = now - 3
       /\ conn_groups[1].conns[j].recovery_attempts = 0
       /\ out[1].to = conn_groups[1].conns[j].addr
       /\ conn_groups[1].conns[k].recovery_attempts = 2


\* the health update of the specification, on the pair
\* <<health_status, successive_failures>> of connection c
HealthAfter(c) ==
  IF now - c.last_rcvd <= CONN_TIMEOUT \div 2 THEN <<0, 0>>
  ELSE IF c.health_status = 0 THEN <<now, 0>>
  ELSE IF now - c.health_status > 5 THEN <<now, c.successive_failures + 1>>
  ELSE <<c.health_status, c.successive_failures>>

\* the step ran the maintenance of the selector's group
MaintenanceStep == SelectStep /\ now - g_last_decay_time > 30

(***************************************************************************)
(* C28: a step changes the health_status and the successive_failures of a  *)
(* connection it keeps only as follows.  A call of the selector for its    *)
(* group that runs the maintenance applies the health update at time now:  *)
(* heard at most CONN_TIMEOUT / 2 ago, both become 0; else with            *)
(* health_status 0, health_status becomes now and successive_failures 0;   *)
(* else with health_status more than 5 s ago, successive_failures grows by *)
(* one and health_status becomes now; else neither changes.  After that,   *)
(* a call of the selector made at a time that is a multiple of 30 sets a   *)
(* successive_failures of 3 or more to 2.  No other step, and no packet    *)
(* received, changes either field.                                         *)
(***************************************************************************)
C28_Step ==
  \A i \in DOMAIN conn_groups, k \in DOMAIN conn_groups' :
    conn_groups[i].uid = conn_groups'[k].uid =>
      \A c \in ConnsOf(<<conn_groups[i]>>), d \in ConnsOf(<<conn_groups'[k]>>) :
        c.addr = d.addr =>
          LET here == SelectStep /\ i = SelGroup
              h == IF MaintenanceStep /\ i = SelGroup THEN HealthAfter(c)
                   ELSE <<c.health_status, c.successive_failures>>
          IN  /\ d.health_status = h[1]
              /\ d.successive_failures =
                   (IF here /\ now % 30 = 0 /\ h[2] >= 3 THEN 2 ELSE h[2])

C28_HealthMachine == [][C28_Step]_vars

\* the maintenance has just counted a failure of a connection
C28_Witness ==
  /\ ev.kind = "srt" /\ g_last_decay_time = now
  /\ \E c \in ConnsOf(conn_groups) :
       /\ c.health_status = now /\ c.successive_failures = 2
       /\ now - c.last_rcvd > CONN_TIMEOUT \div 2


\* C29 as the specification states it: a connection that the clamp has
\* left with successive_failures 2 (and a symptom on record) and that was
\* heard from within CONN_TIMEOUT is in the active set of the next call, so
\* that the call returns a connection heard from within CONN_TIMEOUT
C29_Original ==
  [][(SelectStep /\ \E j \in DOMAIN conn_groups[SelGroup].conns :
                       /\ conn_groups[SelGroup].conns[j].successive_failures = 2
                       /\ conn_groups[SelGroup].conns[j].health_status # 0
                       /\ conn_groups[SelGroup].conns[j].last_rcvd + CONN_TIMEOUT >= now)
       => \A r \in Returned : Kept[r].last_rcvd + CONN_TIMEOUT >= now]_vars

\* successive_failures of connection j of the selector's group after the
\* active set was built
Clamped(j) ==
  IF now % 30 = 0 /\ Kept[j].successive_failures >= 3
  THEN 2 ELSE Kept[j].successive_failures

(***************************************************************************)
(* C29: a call of the selector, after its maintenance, changes of the      *)
(* connections of the group only this: at a time that is a multiple of     *)
(* 30 s every connection with successive_failures >= 3 gets                *)
(* successive_failures 2, and the connection returned gets the datagram    *)
(* counted (and its recovery_attempts cleared).  At any other time no      *)
(* connection but the one returned changes, and a connection with          *)
(* successive_failures below 3 never has it changed.  A connection with    *)
(* successive_failures >= 3 is returned only when no connection is active. *)
(* A connection that enters a call with successive_failures 2 and was      *)
(* heard from within CONN_TIMEOUT is in the active set of that call if     *)
(* the call runs no maintenance or it was heard from within                *)
(* CONN_TIMEOUT / 2; if the maintenance runs and it was not, the           *)
(* maintenance counts its third failure and the call excludes it again.    *)
(***************************************************************************)
C29_Step ==
  SelectStep =>
    LET pre == conn_groups[SelGroup].conns
        post == conn_groups'[SelGroup].conns
        Fresh(c) == c.last_rcvd + CONN_TIMEOUT >= now
    IN  /\ DOMAIN post = DOMAIN Kept
        /\ \A j \in DOMAIN Kept :
             IF j \in Returned
             THEN post[j] = [Kept[j] EXCEPT
                               !.successive_failures = Clamped(j),
                               !.bytes_sent = post[j].bytes_sent,
                               !.bytes_this_period = post[j].bytes_this_period,
                               !.recovery_attempts = post[j].recovery_attempts]
             ELSE post[j] = [Kept[j] EXCEPT !.successive_failures = Clamped(j)]
        /\ (\E r \in Returned : Kept[r].successive_failures >= 3) =>
             \A k \in DOMAIN Kept : ~Active(Kept[k])
        /\ \A j \in DOMAIN pre :
             (pre[j].successive_failures = 2 /\ Fresh(pre[j])) =>
               IF ~MaintenanceStep \/ now - pre[j].last_rcvd <= CONN_TIMEOUT \div 2
               THEN /\ \A r \in Returned : Fresh(Kept[r]) /\ Clamped(r) = Kept[r].successive_failures
                    /\ round_robin_counter' = round_robin_counter + 1
                    /\ (\A k \in DOMAIN pre : Fresh(pre[k]) => k = j) => Returned = {j}
               ELSE /\ pre[j].health_status # 0 => Kept[j].successive_failures = 3
                    /\ (\E k \in DOMAIN Kept : Active(Kept[k])) => j \notin Returned

C29_Rehabilitation == [][C29_Step]_vars

\* a call at a multiple of 30 s has left the connection with the symptom
\* of 32 s ago with successive_failures 2 and has returned another one
C29_Witness ==
  /\ ev.kind = "srt" /\ Len(out) = 1 /\ now % 30 = 0 /\ g_last_decay_time # now
  /\ \E c \in ConnsOf(conn_groups) :
       /\ c.health_status = now - 32 /\ c.successive_failures = 2
       /\ c.last_rcvd = now - 1
       /\ out[1].to # c.addr


(***************************************************************************)
(* C30: the maintenance runs in a call of the selector made more than 30 s *)
(* after g_last_decay_time and sets g_last_decay_time to now; no other     *)
(* step changes it.  For every connection of the group the maintenance     *)
(* sets, if bytes_this_period > 0, max_bytes_per_period to the larger of   *)
(* itself and bytes_this_period, last_capacity_update to now if that is    *)
(* an increase, and bytes_this_period to 0; else, if max_bytes_per_period  *)
(* > 0 and last_capacity_update is more than 60 s ago, it sets             *)
(* max_bytes_per_period to 0.8 times itself, rounded down; and it halves   *)
(* bytes_sent, rounding down.  The datagram of the call is counted after   *)
(* that.  In a step without maintenance max_bytes_per_period and           *)
(* last_capacity_update of a connection stay and its bytes_sent and        *)
(* bytes_this_period do not decrease.                                      *)
(***************************************************************************)
C30_Step ==
  /\ g_last_decay_time' = (IF MaintenanceStep THEN now ELSE g_last_decay_time)
  /\ \A i \in DOMAIN conn_groups, k \in DOMAIN conn_groups' :
       conn_groups[i].uid = conn_groups'[k].uid =>
         \A c \in ConnsOf(<<conn_groups[i]>>), d \in ConnsOf(<<conn_groups'[k]>>) :
           c.addr = d.addr =>
             IF MaintenanceStep /\ i = SelGroup
             THEN /\ d.max_bytes_per_period =
                       (IF c.bytes_this_period > 0
                        THEN (IF c.bytes_this_period > c.max_bytes_per_period
                              THEN c.bytes_this_period ELSE c.max_bytes_per_period)
                        ELSE IF c.max_bytes_per_period > 0 /\ now - c.last_capacity_update > 60
                        THEN (c.max_bytes_per_period * 8) \div 10
                        ELSE c.max_bytes_per_period)
                  /\ d.last_capacity_update =
                       (IF c.bytes_this_period > c.max_bytes_per_period
                        THEN now ELSE c.last_capacity_update)
                  /\ d.bytes_this_period \in {0, ev'.pkt.len}
                  /\ d.bytes_sent - c.bytes_sent \div 2 \in {0, ev'.pkt.len}
                  /\ d.bytes_sent - c.bytes_sent \div 2 = d.bytes_this_period
             ELSE /\ d.max_bytes_per_period = c.max_bytes_per_period
                  /\ d.last_capacity_update = c.last_capacity_update
                  /\ d.bytes_sent >= c.bytes_sent
                  /\ d.bytes_this_period >= c.bytes_this_period
                  /\ d.bytes_sent - c.bytes_sent = d.bytes_this_period - c.bytes_this_period

C30_Capacity == [][C30_Step]_vars



\* the maintenance of the call has just reduced an estimate of 16 to 12
C30_Witness ==
  /\ ev.kind = "srt" /\ g_last_decay_time = now
  /\ \E c \in ConnsOf(conn_groups) :
       /\ c.max_bytes_per_period = 12
       /\ now - c.last_capacity_update > 60




(***************************************************************************)
(* SpecShare: two groups and the one decay timer of the process.  Client 1 *)
(* registers group <<1, 1>> and client 2 group <<1, 2>> in the first batch, *)
(* each with one connection and a first data packet that opens the         *)
(* downstream socket.  After that the clock advances by 15 or 16 seconds   *)
(* between two batches; a batch is a keepalive of each client and then one *)
(* SRT data packet from the downstream socket of each group, in either     *)
(* order.  So the selector runs for each group every 15 or 16 seconds, and *)
(* every second batch finds the timer expired (31 s).  The run lasts       *)
(* ShareTime seconds: seven batches, four of them with the timer expired. *)
(***************************************************************************)
ShareTime == 108

\* the seconds to the next batch
ShareJump == IF (now - StartTime) % 31 = 30 THEN 16 ELSE 15

\* both groups are registered and have their downstream sockets
Registered ==
  /\ Len(conn_groups) = 2
  /\ \A i \in DOMAIN conn_groups :
       conn_groups[i].srt_sock > 0 /\ Len(conn_groups[i].conns) = 1

\* main, lines 1186-1188: an event of the downstream socket of group i
HandleSrtOf(i, buf) ==
  /\ pc = "events"
  /\ i \in DOMAIN conn_groups
  /\ conn_groups[i].uid \in ready
  /\ LET gi == group_find_by_id(conn_groups, conn_groups[i].id)
     IN  /\ \E w \in {handle_srt_data(World, gi, buf, now,
                                       [j \in 1..MAX_CONNS_PER_GROUP |-> j], {})} :
              Commit(w) /\ AfterEvent(w)
         /\ ev' = Ev("srt", NoAddr, buf, conn_groups[gi].uid)
  /\ UNCHANGED <<last_ran, last_ping, now, ts, ready>>

NextShare ==
  \/ ts = now /\ TickTo(ShareJump, ShareTime)
  \/ ~Registered /\ ts # now /\ EpollWait(6)
  \/ Registered /\ ts # now /\ EpollWait(4)
  \/ ~Registered /\ left = 6 /\ RecvReg1(1, 1, 1, TRUE)
  \/ ~Registered /\ left = 5 /\ RecvReg2(1, <<1, 1>>, TRUE)
  \/ ~Registered /\ left = 4 /\ RecvSrt(1, SrtData(258, SRT_MIN_LEN), TRUE, "ok", MaxData)
  \/ ~Registered /\ left = 3 /\ RecvReg1(2, 1, 2, TRUE)
  \/ ~Registered /\ left = 2 /\ RecvReg2(2, <<1, 2>>, TRUE)
  \/ ~Registered /\ left = 1 /\ RecvSrt(2, SrtData(258, SRT_MIN_LEN), TRUE, "ok", MaxData)
  \/ Registered /\ left = 4 /\ RecvSmall(1, Keepalive, TRUE)
  \/ Registered /\ left = 3 /\ RecvSmall(2, Keepalive, TRUE)
  \/ /\ Registered /\ left = 2
     /\ \E i \in 1..2 : HandleSrtOf(i, SrtData(7, SRT_MIN_LEN))
  \/ /\ Registered /\ left = 1
     /\ \E i \in 1..2 : /\ conn_groups[i].uid # ev.uid
                        /\ HandleSrtOf(i, SrtData(7, SRT_MIN_LEN))
  \/ Cleanup
  \/ Ping

SpecShare == Init /\ [][NextShare]_vars

\* main, lines 1182-1196: the for loop dispatches the next event of the batch
Dispatch == pc = "events" /\ left' = left - 1

\* every epoll_wait() returns and the loop goes through its batch, the
\* janitor and the ping; the clock advances
SpecShareFair ==
  /\ SpecShare
  /\ WF_vars(TickTo(ShareJump, ShareTime))
  /\ WF_vars(ts # now /\ \E n \in {4, 6} : EpollWait(n))
  /\ WF_left(Dispatch)
  /\ WF_vars(Cleanup)
  /\ WF_vars(Ping)



\* the step before this state was a call of the selector for the group with
\* uid u that ran the maintenance on its connections: the timer was set and
\* bytes_this_period counts the datagram of the call alone
Maintained(u) ==
  /\ ev.kind = "srt" /\ ev.uid = u /\ g_last_decay_time = now
  /\ \E i \in DOMAIN conn_groups :
       /\ conn_groups[i].uid = u
       /\ \A j \in DOMAIN conn_groups[i].conns :
            conn_groups[i].conns[j].bytes_this_period = ev.pkt.len

\* both groups have had two calls of the selector, and the selector goes on
\* running for each of them every 15 or 16 seconds
Invoked == Registered /\ now = StartTime + 30 /\ pc = "wait" /\ ts = now

StrangerStep ==
  /\ ev'.kind = "srtla" /\ ~Reg1Step /\ ~Reg2Step
  /\ \A i \in DOMAIN conn_groups : ~HasConn(conn_groups[i], ev'.src)

(***************************************************************************)
(* C32: a datagram of srtla_sock that is no 34-byte REG1 or REG2 and comes *)
(* from an address that is the peer address of no connection, be it the    *)
(* last_addr of a group or not, is discarded: the step sends nothing, to   *)
(* the client or to a downstream socket, and changes no group, connection, *)
(* socket, socket info file or counter of the process.                     *)
(***************************************************************************)
C32_Step == StrangerStep => (out' = <<>> /\ NoStateChange)

C32_StrangerDiscarded == [][C32_Step]_vars

\* an SRT data packet from the last_addr of a group that has a connection,
\* but not from that address, has just been discarded
C32_Witness ==
  /\ ev.kind = "srtla" /\ ev.pkt.len >= SRT_MIN_LEN /\ ev.pkt.len # 34
  /\ out = <<>>
  /\ \A i \in DOMAIN conn_groups : ~HasConn(conn_groups[i], ev.src)
  /\ \E i \in DOMAIN conn_groups :
       conn_groups[i].last_addr = ev.src /\ conn_groups[i].conns # <<>>



(***************************************************************************)
(* Registration and the connection timeout (conn_reg, lines 700-749, and   *)
(* cleanup_groups_connections, lines 941-948).                             *)
(***************************************************************************)
\* the step handled a REG2 and its answer, a REG3, was sent
Reg3Step == Reg2Step /\ Replied(SRTLA_TYPE_REG3) /\ out'[1].ok

\* the last event handled was a REG2 that was answered with a REG3
Reg3Answered ==
  /\ ev.kind = "srtla" /\ ev.pkt.len = 34 /\ be16(ev.pkt.b) = SRTLA_TYPE_REG2
  /\ Len(out) = 1 /\ out[1].ok /\ out[1].to = ev.src
  /\ out[1].data.len = 2
  /\ out[1].data.b = <<SRTLA_TYPE_REG3 \div 256, SRTLA_TYPE_REG3 % 256, 0, 0>>

\* C33 as the specification states it: after every REG3 the sender is a
\* connection of the group with last_rcvd equal to the time of the
\* registration, and the cleanup pass that follows the registration in the
\* same loop iteration, which runs before 1.5 * CONN_TIMEOUT have passed,
\* leaves the connection in the registry
C33_OriginalStep ==
  /\ Reg3Step =>
       LET gi == GroupOfId(ev'.pkt.id)
       IN  /\ gi \in DOMAIN conn_groups'
           /\ \E j \in DOMAIN conn_groups'[gi].conns :
                /\ conn_groups'[gi].conns[j].addr = ev'.src
                /\ conn_groups'[gi].conns[j].last_rcvd = ts
  /\ (Reg3Answered /\ ev'.kind = "cleanup") =>
       \E c \in ConnsOf(conn_groups') : c.addr = ev.src

C33_Original == [][C33_OriginalStep]_vars

\* a REG3 for an address that is no connection yet appends a connection with
\* last_rcvd = ts to the group the id names; a REG3 for an address that is
\* a connection of that group already leaves every connection of the group
\* as it was, its last_rcvd included
C33_RegStep ==
  Reg3Step =>
    LET gi == GroupOfId(ev'.pkt.id)
        p == ConnOfSrc(ev'.src)
    IN  /\ gi \in DOMAIN conn_groups /\ gi \in DOMAIN conn_groups'
        /\ conn_groups'[gi].uid = conn_groups[gi].uid
        /\ IF p = <<0, 0>>
           THEN LET n == Len(conn_groups[gi].conns)
                IN  /\ Len(conn_groups'[gi].conns) = n + 1
                    /\ SubSeq(conn_groups'[gi].conns, 1, n) = conn_groups[gi].conns
                    /\ conn_groups'[gi].conns[n + 1].addr = ev'.src
                    /\ conn_groups'[gi].conns[n + 1].last_rcvd = ts
           ELSE /\ p[1] = gi
                /\ conn_groups'[gi].conns = conn_groups[gi].conns

\* a cleanup step keeps every connection whose last_rcvd is not more than
\* 1.5 * CONN_TIMEOUT before ts, with its last_rcvd
C33_CleanupStep ==
  ev'.kind = "cleanup" =>
    \A c \in ConnsOf(conn_groups) :
      ~Expired(c) =>
        \E d \in ConnsOf(conn_groups') : d.addr = c.addr /\ d.last_rcvd = c.last_rcvd

\* C33: whenever the server replies REG3 to address a for group g at time
\* t, a is a connection of g afterwards.  For a first registration its
\* last_rcvd is t; for a re-registration of an existing connection its
\* last_rcvd stays what it was.  No cleanup pass removes a connection
\* earlier than 1.5 * CONN_TIMEOUT after its last_rcvd, so a connection
\* registered for the first time at t stays until t + 1.5 * CONN_TIMEOUT,
\* whereas a re-registered one can be removed by the cleanup pass of the
\* same loop iteration.
C33_RegistrationActivity == [][C33_RegStep /\ C33_CleanupStep]_vars

\* the REG2 of an address that registered earlier and was silent since was
\* answered with a REG3, and the connection still carries the time of its
\* first registration
C33_Witness ==
  /\ Reg3Answered
  /\ \E c \in ConnsOf(conn_groups) :
       /\ c.addr = ev.src
       /\ 2 * c.last_rcvd + 3 * CONN_TIMEOUT < 2 * ts

=============================================================================
